---- MODULE Spec2Model ----
(***************************************************************************)
(* A model of the PhishGuard backend: the sliding-window RateLimiter and   *)
(* the ThreatIntelligence service (threatintel.py), the CompositeScorer    *)
(* (scoring/composite_scorer.py) and the analyze_url pipeline              *)
(* (api/v1/routes.py) with the collaborators it calls.                      *)
(*                                                                         *)
(* Time is a discrete clock of whole seconds (time.time(), datetime.now()).*)
(* Scores are integers; the ML probability is kept in ten-thousandths, as  *)
(* PhishingMLModel.predict rounds it to 4 decimals.                         *)
(***************************************************************************)
EXTENDS Integers, Sequences, FiniteSets, TLC

(***************************************************************************)
(* Bounds of the model.  The limiter parameters and the feed interval are  *)
(* the program's settings scaled down to the model's clock.                *)
(***************************************************************************)
NumThreads == 2
MaxTime == 3
VtRateLimit == 1
VtWindow == 2
AbuseRateLimit == 1
AbuseWindow == 3
UpdateInterval == 2

MaxScoreCalls == 3
Threads == 1..NumThreads
Times == 0..MaxTime
Sources == {"virustotal", "abuseipdb"}
\* Python's None for an optional time: the empty tuple; a time t is <<t>>.
None == <<>>

VARIABLES
    now,                    \* the wall clock, in seconds
    calls,                  \* calls[s]: RateLimiter.calls of source s (a deque of timestamps)
    openphish_cache,        \* ThreatIntelligence.openphish_cache
    openphish_last_update,  \* ThreatIntelligence.openphish_last_update (None or a time)
    api_key,                \* api_key[s]: whether the source's API key is configured
    pc,                     \* pc[t]: where worker thread t is inside check_all
    fnow,                   \* fnow[t]: the local `now` of _update_openphish_cache
    results,                \* results[t]: the `results` dict check_all is building
    issued                  \* issued[s]: times at which a request to source s was sent

intelVars == <<now, calls, openphish_cache, openphish_last_update, api_key,
               pc, fnow, results, issued>>

VARIABLES
    sc_in,                  \* the arguments of a calculate_score call
    sc_fp,                  \* whether the float sum of these arguments falls below its exact value
    sc_out,                 \* what calculate_score returned for them
    sc_details,             \* the *_details arguments of the call that _generate_reasons reads
    sc_reasons,             \* result['reasons'] of the call
    sc_self,                \* the scorer's attributes weight_ml .. weight_lookalike
    sc_n                    \* the number of calculate_score calls so far

scoreVars == <<sc_in, sc_fp, sc_out, sc_details, sc_reasons, sc_self, sc_n>>

VARIABLES
    model_primary,          \* whether PhishingMLModel.model_primary is loaded
    model_fallback,         \* whether PhishingMLModel.model_fallback is loaded
    url_cache,              \* the cache of analyses, by URL key
    rq_pc,                  \* where analyze_url is in the request it serves
    rq_url,                 \* request.url
    rq_page,                \* whether the request carries page_title or page_text
    rq_an,                  \* the calls of asyncio.gather that run no I/O: status and result
    rq_failed,              \* the analyzers that failed while serving this request
    rq_ti,                  \* threat_intel_result
    rq_brand,               \* brand_impersonation_result
    rq_out,                 \* the response of the request
    rq_seen,                \* rq_seen[u]: the last response the client got for URL u
    served,                 \* requests received so far
    use_redis,              \* Cache.use_redis: the entries are kept by a Redis server
    rq_cache_failed         \* the cache operations ("get", "set") that raised in this request

pipeVars == <<model_primary, model_fallback, url_cache, rq_pc, rq_url, rq_page,
              rq_an, rq_failed, rq_ti, rq_brand, rq_out, rq_seen, served,
              use_redis, rq_cache_failed>>

VARIABLES
    memory_cache,           \* Cache.memory_cache: the entries in insertion order
    ck_call                 \* the last call made on the cache, and what it returned

cacheVars == <<memory_cache, ck_call>>

VARIABLES
    hs_in,                  \* the feature map HeuristicScorer.calculate_score is called with
    hs_out,                 \* what it returned
    fx_probe,               \* how the TLS and WHOIS probes of extract_all_features ended
    lk_in,                  \* the registrable-domain label detect_lookalike is called with
    lev_library,            \* whether the Levenshtein package was imported (lines 5-11)
    lk_out                  \* what it returned

analyzerVars == <<hs_in, hs_out, fx_probe, lk_in, lev_library, lk_out>>

vars == <<intelVars, scoreVars, pipeVars, cacheVars, analyzerVars>>

\* What the steps of check_all leave alone, what a call of calculate_score
\* leaves alone, and what analyze_url leaves alone besides the threat-intel
\* service and the scorer.
outsideIntel == <<scoreVars, pipeVars, cacheVars, analyzerVars>>
outsideScore == <<intelVars, pipeVars, cacheVars, analyzerVars>>
outsidePipe == <<cacheVars, analyzerVars>>
outsideCache == <<scoreVars, pipeVars, analyzerVars>>

(***************************************************************************)
(* RateLimiter                                                             *)
(***************************************************************************)
max_calls(s) == IF s = "virustotal" THEN VtRateLimit ELSE AbuseRateLimit
time_window(s) == IF s = "virustotal" THEN VtWindow ELSE AbuseWindow

\* A limiter that also drops the timestamp exactly time_window old.
RECURSIVE EvictInclusive(_, _, _)
EvictInclusive(q, t, w) ==
    IF q # <<>> /\ Head(q) <= t - w THEN EvictInclusive(Tail(q), t, w) ELSE q

\* The while loop of can_call: pop from the left while the head is older
\* than now - time_window.
RECURSIVE Evict(_, _, _)
Evict(q, t, w) ==
    IF q # <<>> /\ Head(q) < t - w THEN Evict(Tail(q), t, w) ELSE q

\* A limiter that lets a call through with max_calls calls in the window.
UnderLimitInclusive(q, s) == Len(q) <= max_calls(s)

\* The value can_call returns, given the deque after eviction.
UnderLimit(q, s) == Len(q) < max_calls(s)

\* wait_time, called on a deque can_call has just refused.
WaitTime(q, t, s) ==
    LET e == Evict(q, t, time_window(s))
    IN  IF UnderLimit(e, s) THEN 0
        ELSE LET wait == (Head(e) + time_window(s)) - t
             IN  IF wait > 0 THEN wait ELSE 0

(***************************************************************************)
(* URLs.  A URL is a token; "U1 " stands for a spelling of u1 with upper   *)
(* case letters and surrounding blanks, which lower().strip() maps to u1.  *)
(* Every URL of the model has a host.                                      *)
(***************************************************************************)
Urls == {"U1 ", "u2"}
Normalize(u) == IF u = "U1 " THEN "u1" ELSE u

\* The feed of a 200 response, parsed from its text (a set of lines).
ParseFeed(text) == {Normalize(line) : line \in text}

(***************************************************************************)
(* ThreatIntelligence.check_all, one worker thread per call                *)
(* (asyncio.to_thread in analyze_url).  A step is one access to the shared *)
(* limiter or feed state, or one external request.                         *)
(***************************************************************************)
EmptySub == [set |-> FALSE, success |-> FALSE, error |-> "", wait_time |-> 0, value |-> 0]
InitResults ==
    [threat_intel_score |-> 0, virustotal |-> EmptySub, abuseipdb |-> EmptySub,
     openphish |-> EmptySub, hits |-> 0, reasons |-> <<>>]

Min(a, b) == IF a < b THEN a ELSE b
Max(a, b) == IF a > b THEN a ELSE b

\* Line 139: the final clamp of check_all.
NormalizeResults(r) ==
    [r EXCEPT !.threat_intel_score = Min(r.threat_intel_score, 100)]

\* Lines 103-106: the OpenPhish contribution.
AddOpenphish(r, sub) ==
    LET r1 == [r EXCEPT !.openphish = sub]
    IN  IF sub.success /\ sub.value = 1
        THEN [r1 EXCEPT !.hits = @ + 1,
                        !.threat_intel_score = @ + 40,
                        !.reasons = Append(@, "Listed in OpenPhish feed")]
        ELSE r1

\* Lines 111-121: the VirusTotal contribution.
AddVirustotal(r, sub) ==
    LET r1 == [r EXCEPT !.virustotal = sub]
    IN  IF ~sub.success THEN r1
        ELSE IF sub.value >= 5
        THEN [r1 EXCEPT !.hits = @ + 1,
                        !.threat_intel_score = @ + 35,
                        !.reasons = Append(@, "VirusTotal: malicious")]
        ELSE IF sub.value >= 2
        THEN [r1 EXCEPT !.threat_intel_score = @ + 20,
                        !.reasons = Append(@, "VirusTotal: suspicious")]
        ELSE r1

\* Lines 126-136: the AbuseIPDB contribution.
AddAbuseipdb(r, sub) ==
    LET r1 == [r EXCEPT !.abuseipdb = sub]
    IN  IF ~sub.success THEN r1
        ELSE IF sub.value >= 75
        THEN [r1 EXCEPT !.hits = @ + 1,
                        !.threat_intel_score = @ + 25,
                        !.reasons = Append(@, "AbuseIPDB: abuse confidence")]
        ELSE IF sub.value >= 50
        THEN [r1 EXCEPT !.threat_intel_score = @ + 15,
                        !.reasons = Append(@, "AbuseIPDB: moderate risk")]
        ELSE r1

AddSource(s, r, sub) ==
    IF s = "virustotal" THEN AddVirustotal(r, sub) ELSE AddAbuseipdb(r, sub)

\* Lines 109 and 124: a source is consulted only when its key is configured.
StageAfter(stage) ==
    IF stage = "openphish" /\ api_key["virustotal"] THEN "vt_can"
    ELSE IF stage \in {"openphish", "virustotal"} /\ api_key["abuseipdb"] THEN "ab_can"
    ELSE "done"

Goto(t, stage, r) ==
    /\ pc' = [pc EXCEPT ![t] = StageAfter(stage)]
    /\ results' = [results EXCEPT ![t] =
                      IF StageAfter(stage) = "done" THEN NormalizeResults(r) ELSE r]

\* Lines 294-296: the feed is fresh when it was fetched less than the
\* update interval ago.
FeedFresh(last, t) == last # None /\ t - last[1] < UpdateInterval

\* check_all is entered, check_openphish calls _update_openphish_cache,
\* which reads the clock and decides whether to fetch (lines 291-300).
UpdateCheck(t) ==
    /\ pc[t] = "enter"
    /\ fnow' = [fnow EXCEPT ![t] = now]
    /\ pc' = [pc EXCEPT ![t] =
                 IF FeedFresh(openphish_last_update, now) THEN "op_lookup"
                 ELSE "op_fetching"]
    /\ UNCHANGED <<now, calls, openphish_cache, openphish_last_update, api_key,
                   results, issued>>
    /\ UNCHANGED outsideIntel

\* The feed request returns 200 (lines 305-310).
FetchOk(t) ==
    /\ pc[t] = "op_fetching"
    /\ \E text \in {{"U1 "}, {"u2"}} : openphish_cache' = ParseFeed(text)
    /\ openphish_last_update' = <<fnow[t]>>
    /\ pc' = [pc EXCEPT ![t] = "op_lookup"]
    /\ UNCHANGED <<now, calls, api_key, fnow, results, issued>>
    /\ UNCHANGED outsideIntel

\* The feed request returns another status, times out or raises
\* (lines 311-315).
FetchFail(t) ==
    /\ pc[t] = "op_fetching"
    /\ pc' = [pc EXCEPT ![t] = "op_lookup"]
    /\ UNCHANGED <<now, calls, openphish_cache, openphish_last_update, api_key,
                   fnow, results, issued>>
    /\ UNCHANGED outsideIntel

\* check_openphish lines 272-283 and check_all lines 102-106, for the URL
\* check_all was called with.
LookupUrl(t, u) ==
    /\ pc[t] = "op_lookup"
    /\ LET hit == Normalize(u) \in openphish_cache
           sub == [EmptySub EXCEPT !.set = TRUE, !.success = TRUE,
                                   !.value = IF hit THEN 1 ELSE 0]
       IN  Goto(t, "openphish", AddOpenphish(results[t], sub))
    /\ UNCHANGED <<now, calls, openphish_cache, openphish_last_update, api_key,
                   fnow, issued>>
    /\ UNCHANGED outsideIntel

SourceAt(p) == IF p \in {"vt_can", "vt_request"} THEN "virustotal" ELSE "abuseipdb"

\* check_virustotal lines 149-166 / check_abuseipdb lines 210-239: can_call,
\* then either the rate_limited return or the external request is sent.
CanCall(t) ==
    /\ pc[t] \in {"vt_can", "ab_can"}
    /\ LET s == SourceAt(pc[t])
           q == Evict(calls[s], now, time_window(s))
       IN  /\ calls' = [calls EXCEPT ![s] = q]
           /\ IF UnderLimit(q, s)
              THEN /\ pc' = [pc EXCEPT ![t] =
                                IF s = "virustotal" THEN "vt_request" ELSE "ab_request"]
                   /\ issued' = [issued EXCEPT ![s] = Append(@, now)]
                   /\ UNCHANGED results
              ELSE /\ Goto(t, s, AddSource(s, results[t],
                             [EmptySub EXCEPT !.set = TRUE, !.error = "rate_limited",
                                              !.wait_time = WaitTime(q, now, s)]))
                   /\ UNCHANGED issued
    /\ UNCHANGED <<now, openphish_cache, openphish_last_update, api_key, fnow>>
    /\ UNCHANGED outsideIntel

\* add_call (line 45).
AddCall(q, t) == Append(q, t)

\* The request returned a response: add_call, then the response is read
\* (lines 168-195 / 241-257).  success is the 200 path with its payload.
Responded(t) ==
    /\ pc[t] \in {"vt_request", "ab_request"}
    /\ LET s == SourceAt(pc[t])
       IN  /\ calls' = [calls EXCEPT ![s] = AddCall(@, now)]
           /\ \E sub \in
                  {[EmptySub EXCEPT !.set = TRUE, !.success = TRUE, !.value = v] :
                      v \in IF s = "virustotal" THEN {0, 2, 5} ELSE {0, 50, 75}}
                  \cup {[EmptySub EXCEPT !.set = TRUE, !.error = "HTTP"]} :
                 Goto(t, s, AddSource(s, results[t], sub))
    /\ UNCHANGED <<now, openphish_cache, openphish_last_update, api_key, fnow, issued>>
    /\ UNCHANGED outsideIntel

\* The request timed out or raised: the except clauses return without
\* add_call (lines 197-202 / 259-264).
RequestRaised(t) ==
    /\ pc[t] \in {"vt_request", "ab_request"}
    /\ LET s == SourceAt(pc[t])
       IN  Goto(t, s, AddSource(s, results[t],
                 [EmptySub EXCEPT !.set = TRUE, !.error = "timeout"]))
    /\ UNCHANGED <<now, calls, openphish_cache, openphish_last_update, api_key,
                   fnow, issued>>
    /\ UNCHANGED outsideIntel

\* check_all is called with any URL.
Lookup(t) == \E u \in Urls : LookupUrl(t, u)

\* check_all returns and the worker is given the next call.
Return(t) ==
    /\ pc[t] = "done"
    /\ pc' = [pc EXCEPT ![t] = "enter"]
    /\ results' = [results EXCEPT ![t] = InitResults]
    /\ UNCHANGED <<now, calls, openphish_cache, openphish_last_update, api_key,
                   fnow, issued>>
    /\ UNCHANGED outsideIntel

Tick ==
    /\ now < MaxTime
    /\ now' = now + 1
    /\ UNCHANGED <<calls, openphish_cache, openphish_last_update, api_key,
                   pc, fnow, results, issued>>
    /\ UNCHANGED outsideIntel

InitShared ==
    /\ now = 0
    /\ calls = [s \in Sources |-> <<>>]
    /\ openphish_cache = {}
    /\ openphish_last_update = None
    /\ fnow = [t \in Threads |-> 0]
    /\ results = [t \in Threads |-> InitResults]
    /\ issued = [s \in Sources |-> <<>>]

(***************************************************************************)
(* LookalikeDomainDetector.detect_lookalike: the verdict it derives from   *)
(* the best similarity (in ten-thousandths) and the homoglyph check.  The  *)
(* best match has similarity 1 exactly when its label equals the           *)
(* candidate's, and similarity 0 only when there is no match at all.       *)
(***************************************************************************)
SIMILARITY_THRESHOLD == 8500

LookalikeVerdict(sim, homoglyph) ==
    LET is_lookalike == (sim >= SIMILARITY_THRESHOLD /\ sim > 0 /\ sim # 10000)
                            \/ homoglyph
        base == sim \div 100
        withHomoglyph == IF homoglyph THEN Min(100, base + 15) ELSE base
        withBonus == IF sim > 9500 THEN Min(100, withHomoglyph + 10) ELSE withHomoglyph
    IN  [is_lookalike |-> is_lookalike,
         lookalike_score |-> IF is_lookalike THEN withBonus ELSE 0,
         similarity_score |-> sim,
         homoglyph_detected |-> homoglyph]

\* _get_default_result: what detect_lookalike returns when it failed.
LookalikeDefault ==
    [is_lookalike |-> FALSE, lookalike_score |-> 0, similarity_score |-> 0,
     homoglyph_detected |-> FALSE]

(***************************************************************************)
(* CompositeScorer.  Weights are in hundredths, the ML probability in      *)
(* ten-thousandths, so the weighted sum is kept in units of 1/10000.       *)
(***************************************************************************)
WEIGHT_ML == 40
WEIGHT_HEURISTIC == 25
WEIGHT_THREAT_INTEL == 30
WEIGHT_LOOKALIKE == 5

\* __init__, lines 20-23: the attributes take the configured weights.
ConfiguredWeights ==
    [ml |-> WEIGHT_ML, heuristic |-> WEIGHT_HEURISTIC,
     threat_intel |-> WEIGHT_THREAT_INTEL, lookalike |-> WEIGHT_LOOKALIKE]
THRESHOLD_SAFE == 30
THRESHOLD_SUSPICIOUS == 60
THRESHOLD_DANGEROUS == 85

\* Lines 59-70: the weights of this call.
Weights(in) ==
    IF in.lookalike.is_lookalike /\ in.lookalike.lookalike_score >= 90
    THEN [ml |-> 20, heuristic |-> 25, threat_intel |-> 20, lookalike |-> 35]
    ELSE sc_self

\* A call that keeps the weights it applied in the scorer's attributes.
SelfAfterCallAdapted(in) == Weights(in)

\* Lines 59-71: the call assigns local names only; the attributes stay.
SelfAfterCall(in) == sc_self

\* Lines 56 and 73-78: the weighted sum, exact, in units of 1/10000.
WeightedSum(in) ==
    LET w == Weights(in)
    IN  in.ml * w.ml
          + (in.heuristic * w.heuristic + in.threat_intel * w.threat_intel
               + in.lookalike.lookalike_score * w.lookalike) * 100

\* A composite that rounds the sum to the nearest integer (half up).
CompositeRounded(in, fp) ==
    Max(0, Min(100, (WeightedSum(in) + 5000) \div 10000))

\* Line 81: int() truncates the float sum, then the clamp.  The sum is
\* computed in binary floating point: where the exact sum is a whole number
\* n > 0 the float may be n or fall just below it (fp), and int() then
\* gives n - 1; any other exact sum is at least 0.002 away from a whole
\* number and truncates as the exact value does.
Composite(in, fp) ==
    LET sum == WeightedSum(in)
        whole == sum \div 10000
        truncated == IF fp /\ sum % 10000 = 0 /\ sum > 0 THEN whole - 1 ELSE whole
    IN  Max(0, Min(100, truncated))

\* _get_risk_level, lines 154-163.
GetRiskLevel(score) ==
    IF score <= THRESHOLD_SAFE THEN "safe"
    ELSE IF score <= THRESHOLD_SUSPICIOUS THEN "suspicious"
    ELSE IF score <= THRESHOLD_DANGEROUS THEN "dangerous"
    ELSE "critical"

\* A verdict base that flags from the safe threshold on.
BaseVerdictFromSafe(composite) == composite >= THRESHOLD_SAFE

\* Line 87: the verdict before the override.
BaseVerdict(composite) == composite >= THRESHOLD_SUSPICIOUS

\* An override whose second rule asks for heuristic >= 70, as the comment
\* above it says.
OverrideFiresAsCommented(in) ==
    /\ in.lookalike.is_lookalike
    /\ \/ in.lookalike.lookalike_score >= 90 /\ in.heuristic >= 60
       \/ in.lookalike.lookalike_score >= 80 /\ in.heuristic >= 70
       \/ in.lookalike.lookalike_score >= 75 /\ in.lookalike.homoglyph_detected

\* Lines 92-95: the condition of the override.
OverrideFires(in) ==
    /\ in.lookalike.is_lookalike
    /\ \/ in.lookalike.lookalike_score >= 90 /\ in.heuristic >= 60
       \/ in.lookalike.lookalike_score >= 80 /\ in.heuristic >= 50
       \/ in.lookalike.lookalike_score >= 75 /\ in.lookalike.homoglyph_detected

\* A boost that assigns the floor instead of taking the maximum.
BoostAssign(composite) == THRESHOLD_SUSPICIOUS + 10

\* A boost that adds to the score.
BoostAdd(composite) == composite + 10

\* Line 98: the boosted score.
Boost(composite) == Max(composite, THRESHOLD_SUSPICIOUS + 10)

\* A risk level left as it was computed before the override.
RiskAfterOverrideStale(before, boosted) == before

\* Line 99: the risk level is computed again from the boosted score.
RiskAfterOverride(before, boosted) == GetRiskLevel(boosted)

\* calculate_score, lines 55-99 and the fields of the result they decide.
\* composite is the score before the override step (not returned by the
\* code, kept here to state what the override did).
CalculateScore(in, fp) ==
    LET composite == Composite(in, fp)
        risk == GetRiskLevel(composite)
        override == OverrideFires(in)
        boosted == IF override THEN Boost(composite) ELSE composite
    IN  [called |-> TRUE,
         composite |-> composite,
         override |-> override,
         threat_score |-> boosted,
         risk_level |-> IF override THEN RiskAfterOverride(risk, boosted) ELSE risk,
         is_phishing |-> IF override THEN TRUE ELSE BaseVerdict(composite)]

NotCalled ==
    [called |-> FALSE, composite |-> 0, override |-> FALSE, threat_score |-> 0,
     risk_level |-> "safe", is_phishing |-> FALSE]

(***************************************************************************)
(* CompositeScorer._generate_reasons.  The details it reads: the matched   *)
(* rules of the heuristic result (name and score, sorted by score), the    *)
(* reasons of the threat-intel result, and the brand-impersonation result. *)
(* Contributions are in units of 1/10000, as the weighted sum is.          *)
(***************************************************************************)
NoBrand == [given |-> FALSE, is_impersonating |-> FALSE, impersonation_score |-> 0]
NoDetails == [matched_rules |-> <<>>, ti_reasons |-> <<>>, brand |-> NoBrand]

\* Lines 199-209: the contributions, computed with the configured weights
\* (self.weight_*), in the order ml, heuristic, threat_intel, lookalike.
Contributions(in) ==
    <<[source |-> "ml", weight |-> in.ml * sc_self.ml],
      [source |-> "heuristic", weight |-> in.heuristic * sc_self.heuristic * 100],
      [source |-> "threat_intel", weight |-> in.threat_intel * sc_self.threat_intel * 100],
      [source |-> "lookalike",
       weight |-> in.lookalike.lookalike_score * sc_self.lookalike * 100]>>

\* list.sort(key=weight, reverse=True): a stable sort, largest first.
RECURSIVE InsertByWeight(_, _)
InsertByWeight(sorted, x) ==
    IF sorted = <<>> THEN <<x>>
    ELSE IF Head(sorted).weight >= x.weight
    THEN <<Head(sorted)>> \o InsertByWeight(Tail(sorted), x)
    ELSE <<x>> \o sorted

RECURSIVE SortByWeight(_)
SortByWeight(s) ==
    IF s = <<>> THEN <<>>
    ELSE InsertByWeight(SortByWeight(SubSeq(s, 1, Len(s) - 1)), s[Len(s)])

\* Line 220: weight_percent = int(contribution / composite_score * 100).
WeightPercent(contribution, score) ==
    IF score > 0 THEN (contribution * 100) \div (score * 10000) ELSE 0

\* Lines 223-267: the reasons one source adds, given its contribution.
SourceReasons(c, in, details, score) ==
    LET wp == WeightPercent(c.weight, score)
    IN  IF c.source = "threat_intel" /\ details.ti_reasons # <<>>
        THEN [k \in 1..Min(3, Len(details.ti_reasons)) |->
                 [source |-> "threat_intelligence", factor |-> details.ti_reasons[k],
                  weight |-> wp]]
        ELSE IF c.source = "lookalike" /\ in.lookalike.is_lookalike
        THEN <<[source |-> "lookalike_detection", factor |-> "Lookalike domain",
                weight |-> wp]>>
        ELSE IF c.source = "heuristic" /\ details.matched_rules # <<>>
        THEN [k \in 1..Min(3, Len(details.matched_rules)) |->
                 [source |-> "heuristic_analysis",
                  factor |-> details.matched_rules[k].rule,
                  weight |-> IF in.heuristic > 0
                             THEN (details.matched_rules[k].score * wp)
                                    \div in.heuristic
                             ELSE 0]]
        ELSE IF c.source = "ml"
        THEN <<[source |-> "machine_learning", factor |-> "ML model predicts",
                weight |-> wp]>>
        ELSE <<>>

\* Lines 215-267: the loop over the sorted contributions from position i
\* on; a contribution below 5 is skipped.
RECURSIVE CollectReasons(_, _, _, _, _)
CollectReasons(cs, i, in, details, score) ==
    IF i > Len(cs) THEN <<>>
    ELSE (IF cs[i].weight < 50000 THEN <<>>
          ELSE SourceReasons(cs[i], in, details, score))
           \o CollectReasons(cs, i + 1, in, details, score)

\* _generate_reasons, lines 184-281, called with the score after the
\* override.
GenerateReasons(in, details, score) ==
    LET collected == CollectReasons(SortByWeight(Contributions(in)), 1,
                                    in, details, score)
        withBrand == IF details.brand.given /\ details.brand.is_impersonating
                     THEN <<[source |-> "brand_impersonation",
                             factor |-> "Page is impersonating",
                             weight |-> details.brand.impersonation_score]>>
                            \o collected
                     ELSE collected
    IN  SubSeq(SortByWeight(withBrand), 1, Min(10, Len(withBrand)))

\* Lines 131-141: the contributions reported in the analysis block, computed
\* with the weights of this call.  Their round(., 2) changes no product of
\* the scores drawn here: each is a whole number of hundredths.
ReportedContribution(in, source) ==
    LET w == Weights(in)
    IN  IF source = "ml" THEN in.ml * w.ml
        ELSE IF source = "heuristic" THEN in.heuristic * w.heuristic * 100
        ELSE IF source = "threat_intel" THEN in.threat_intel * w.threat_intel * 100
        ELSE in.lookalike.lookalike_score * w.lookalike * 100

(***************************************************************************)
(* The arguments calculate_score is called with in analyze_url: the ML     *)
(* probability, the heuristic score, the score of check_all, and the       *)
(* record of detect_lookalike.                                              *)
(***************************************************************************)
MlValues == {0, 2850, 5000, 7500, 9000, 10000}
HeuristicValues == {0, 30, 49, 50, 59, 60, 100}
ThreatIntelValues == {0, 20, 40, 75, 100}
SimValues == {0, 5900, 6000, 7500, 8400, 8500, 8900, 9000, 9500, 9600, 10000}

\* A homoglyph needs a best match whose label differs from the candidate's.
LookalikeResults ==
    {LookalikeVerdict(sim, hg) : sim \in SimValues, hg \in {FALSE}}
    \cup {LookalikeVerdict(sim, TRUE) : sim \in SimValues \ {0, 10000}}

\* The matched rules of a heuristic result with the given score: rules of
\* HeuristicScorer whose scores add up to it (to more, for the capped 100),
\* highest first.
MatchedRulesFor(score) ==
    IF score = 30 THEN <<[rule |-> "IP address instead of domain", score |-> 30]>>
    ELSE IF score = 49
    THEN <<[rule |-> "Multiple suspicious keywords", score |-> 25],
           [rule |-> "Deep path structure", score |-> 12],
           [rule |-> "High special character ratio", score |-> 12]>>
    ELSE IF score = 50
    THEN <<[rule |-> "IP address instead of domain", score |-> 30],
           [rule |-> "Multiple subdomains", score |-> 20]>>
    ELSE IF score = 59
    THEN <<[rule |-> "Multiple suspicious keywords", score |-> 25],
           [rule |-> "Deep path structure", score |-> 12],
           [rule |-> "High special character ratio", score |-> 12],
           [rule |-> "Very long domain", score |-> 10]>>
    ELSE IF score = 60
    THEN <<[rule |-> "IP address instead of domain", score |-> 30],
           [rule |-> "Very new domain", score |-> 30]>>
    ELSE IF score = 100
    THEN <<[rule |-> "IP address instead of domain", score |-> 30],
           [rule |-> "Very new domain", score |-> 30],
           [rule |-> "Multiple suspicious keywords", score |-> 25],
           [rule |-> "Invalid or missing SSL", score |-> 25]>>
    ELSE <<>>

\* The details that come with the scores of a call: the matched rules,
\* the reasons of a check_all result with the score, and no page data.
DetailsFor(in) ==
    [matched_rules |-> MatchedRulesFor(in.heuristic),
     ti_reasons |->
         IF in.threat_intel = 20 THEN <<"VirusTotal: suspicious">>
         ELSE IF in.threat_intel = 40 THEN <<"Listed in OpenPhish feed">>
         ELSE IF in.threat_intel = 75
         THEN <<"Listed in OpenPhish feed", "VirusTotal: malicious">>
         ELSE IF in.threat_intel = 100
         THEN <<"Listed in OpenPhish feed", "VirusTotal: malicious",
                "AbuseIPDB: abuse confidence">>
         ELSE <<>>,
     brand |-> NoBrand]

ScoreInputs ==
    [ml : MlValues, heuristic : HeuristicValues, threat_intel : ThreatIntelValues,
     lookalike : LookalikeResults]

\* The float sum can fall below the exact one only where that is whole.
FpOutcomes(in) ==
    IF WeightedSum(in) % 10000 = 0 /\ WeightedSum(in) > 0 THEN BOOLEAN ELSE {FALSE}

ScoreIdle ==
    /\ sc_in = [ml |-> 0, heuristic |-> 0, threat_intel |-> 0, lookalike |-> LookalikeDefault]
    /\ sc_fp = FALSE
    /\ sc_out = NotCalled
    /\ sc_details = NoDetails
    /\ sc_reasons = <<>>
    /\ sc_self = ConfiguredWeights
    /\ sc_n = 0

\* calculate_score is called with the arguments.
Score ==
    /\ ~sc_out.called
    /\ sc_out' = CalculateScore(sc_in, sc_fp)
    /\ sc_reasons' = GenerateReasons(sc_in, sc_details, sc_out'.threat_score)
    /\ sc_self' = SelfAfterCall(sc_in)
    /\ sc_n' = sc_n + 1
    /\ UNCHANGED <<sc_in, sc_fp, sc_details>>
    /\ UNCHANGED outsideScore

ScoreAgain(in) ==
    /\ sc_out.called
    /\ sc_n < MaxScoreCalls
    /\ in # sc_in
    /\ sc_in' = in
    /\ sc_fp' \in FpOutcomes(in)
    /\ sc_out' = CalculateScore(in, sc_fp')
    /\ sc_details' = DetailsFor(in)
    /\ sc_reasons' = GenerateReasons(in, sc_details', sc_out'.threat_score)
    /\ sc_self' = SelfAfterCall(in)
    /\ sc_n' = sc_n + 1
    /\ UNCHANGED outsideScore

\* The next call has the arguments of the last one; the float sum of the
\* same operands is the same.
ScoreSame ==
    /\ sc_out.called
    /\ sc_n < MaxScoreCalls
    /\ sc_out' = CalculateScore(sc_in, sc_fp)
    /\ sc_reasons' = GenerateReasons(sc_in, sc_details, sc_out'.threat_score)
    /\ sc_self' = SelfAfterCall(sc_in)
    /\ sc_n' = sc_n + 1
    /\ UNCHANGED <<sc_in, sc_fp, sc_details>>
    /\ UNCHANGED outsideScore

\* A later call whose arguments differ from the last call's in one score:
\* the ML probability, the heuristic score, the threat-intel score, or the
\* similarity the lookalike score derives from.
Rescore ==
    \/ \E v \in MlValues : ScoreAgain([sc_in EXCEPT !.ml = v])
    \/ \E v \in HeuristicValues : ScoreAgain([sc_in EXCEPT !.heuristic = v])
    \/ \E v \in ThreatIntelValues : ScoreAgain([sc_in EXCEPT !.threat_intel = v])
    \/ \E v \in SimValues :
         LET lk == LookalikeVerdict(v, sc_in.lookalike.homoglyph_detected)
         IN  /\ lk \in LookalikeResults
             /\ ScoreAgain([sc_in EXCEPT !.lookalike = lk])

(***************************************************************************)
(* analyze_url, serving one request at a time.  The handler probes the     *)
(* cache, extracts the URL features (extract_all_features catches its own  *)
(* failures and returns default features), runs the four analyzers on      *)
(* worker threads under asyncio.gather, runs the brand detection when page *)
(* data came with the request, fuses, stores and responds.  Worker 1 is    *)
(* the thread that runs check_all.  Cached entries outlive the clock of    *)
(* the model (their TTL is a day or more).                                 *)
(***************************************************************************)
MaxRequests == 2

CACHE_TTL_POSITIVE == 604800
CACHE_TTL_NEGATIVE == 86400

PureAnalyzers == {"heuristic", "lookalike", "ml"}

\* What the analyzers return in this specification when they do not fail.
PipeHeuristicValues == {60}
PipeSimValues == {9000}
PipeMlValues == {9000}

NoEntry == [present |-> FALSE, threat_score |-> 0, risk_level |-> "safe",
            is_phishing |-> FALSE, ttl |-> None]
NoResponse == [status |-> 0, threat_score |-> 0, risk_level |-> "safe",
               is_phishing |-> FALSE]
NotRun == [st |-> "idle", score |-> 0, lookalike |-> LookalikeDefault]
Returned(score, lk) == [st |-> "returned", score |-> score, lookalike |-> lk]

\* _make_url_key: the key is a hash of url.lower().strip().
MakeUrlKey(u) == Normalize(u)

\* A policy that looks at the score only.
CacheTtlScoreOnly(score, level) ==
    IF score >= 90 THEN None
    ELSE IF score >= 60 THEN <<CACHE_TTL_POSITIVE>>
    ELSE <<CACHE_TTL_NEGATIVE>>

\* set_url_analysis, lines 196-206: the TTL of the entry (None is permanent).
CacheTtl(score, level) ==
    IF level = "critical" \/ score >= 90 THEN None
    ELSE IF score >= 60 THEN <<CACHE_TTL_POSITIVE>>
    ELSE <<CACHE_TTL_NEGATIVE>>

\* brand_impersonation_details: None without page data; else the result of
\* detect_impersonation, whose default marks no impersonation.  The pages
\* of this specification impersonate no brand.
BrandDetails(b) ==
    IF b = "None" THEN NoBrand
    ELSE [given |-> TRUE, is_impersonating |-> FALSE, impersonation_score |-> 0]

\* PhishingMLModel.predict: the primary model is used when it is loaded and
\* its inference succeeds; else the except clause calls predict again with
\* the fallback model when that is loaded, and raises again otherwise; the
\* second call raises when the fallback's inference fails.
Predict(primary_ok, fallback_ok, v) ==
    IF model_primary /\ primary_ok THEN Returned(v, LookalikeDefault)
    ELSE IF model_fallback /\ fallback_ok THEN Returned(v, LookalikeDefault)
    ELSE [NotRun EXCEPT !.st = "raised"]

PipeIdle ==
    /\ url_cache = [k \in {MakeUrlKey(u) : u \in Urls} |-> NoEntry]
    /\ rq_pc = "idle"
    /\ rq_url = "u2"
    /\ rq_page = FALSE
    /\ rq_an = [a \in PureAnalyzers |-> NotRun]
    /\ rq_failed = {}
    /\ rq_ti = InitResults
    /\ rq_brand = "None"
    /\ rq_out = NoResponse
    /\ rq_seen = [u \in Urls |-> NoResponse]
    /\ served = 0
    /\ use_redis = FALSE
    /\ rq_cache_failed = {}

\* A request arrives, once the worker threads of the last one have ended.
Receive ==
    /\ rq_pc = "idle"
    /\ pc[1] = "idle"
    /\ served < MaxRequests
    /\ served' = served + 1
    /\ rq_url' \in Urls
    /\ rq_page' \in BOOLEAN
    /\ rq_pc' = "probe"
    /\ UNCHANGED <<model_primary, model_fallback, url_cache, rq_an, rq_failed,
                   rq_ti, rq_brand, rq_out>>
    /\ UNCHANGED <<intelVars, scoreVars>>
    /\ UNCHANGED outsidePipe
    /\ UNCHANGED <<use_redis, rq_cache_failed>>
    /\ UNCHANGED rq_seen

\* A probe that consumes the entry it returns.
CacheHitConsuming ==
    /\ rq_pc = "probe"
    /\ url_cache[MakeUrlKey(rq_url)].present
    /\ LET e == url_cache[MakeUrlKey(rq_url)]
       IN  rq_out' = [status |-> 200, threat_score |-> e.threat_score,
                      risk_level |-> e.risk_level, is_phishing |-> e.is_phishing]
    /\ url_cache' = [url_cache EXCEPT ![MakeUrlKey(rq_url)] = NoEntry]
    /\ rq_pc' = "done"
    /\ UNCHANGED <<model_primary, model_fallback, rq_url, rq_page,
                   rq_an, rq_failed, rq_ti, rq_brand, served>>
    /\ UNCHANGED <<intelVars, scoreVars>>
    /\ UNCHANGED outsidePipe
    /\ UNCHANGED <<use_redis, rq_cache_failed>>
    /\ UNCHANGED rq_seen

\* Lines 51-54: the cached analysis is returned.
CacheHit ==
    /\ rq_pc = "probe"
    /\ url_cache[MakeUrlKey(rq_url)].present
    /\ LET e == url_cache[MakeUrlKey(rq_url)]
       IN  rq_out' = [status |-> 200, threat_score |-> e.threat_score,
                      risk_level |-> e.risk_level, is_phishing |-> e.is_phishing]
    /\ rq_pc' = "done"
    /\ UNCHANGED <<model_primary, model_fallback, url_cache, rq_url, rq_page,
                   rq_an, rq_failed, rq_ti, rq_brand, served>>
    /\ UNCHANGED <<intelVars, scoreVars>>
    /\ UNCHANGED outsidePipe
    /\ UNCHANGED <<use_redis, rq_cache_failed>>
    /\ UNCHANGED rq_seen

\* Lines 58-67: no entry, or the Redis backend raised and Cache.get
\* returned None (cache.py lines 66-69); the features are extracted and the
\* four analyzers are handed to worker threads.
Dispatch ==
    /\ rq_pc = "probe"
    /\ \E failed \in IF use_redis THEN BOOLEAN ELSE {FALSE} :
         /\ failed \/ ~url_cache[MakeUrlKey(rq_url)].present
         /\ rq_cache_failed' = IF failed THEN rq_cache_failed \cup {"get"}
                                ELSE rq_cache_failed
    /\ UNCHANGED use_redis
    /\ rq_an' = [a \in PureAnalyzers |-> [NotRun EXCEPT !.st = "running"]]
    /\ pc' = [pc EXCEPT ![1] = "enter"]
    /\ rq_pc' = "gather"
    /\ UNCHANGED <<model_primary, model_fallback, url_cache, rq_url, rq_page,
                   rq_failed, rq_ti, rq_brand, rq_out, served>>
    /\ UNCHANGED <<now, calls, openphish_cache, openphish_last_update, api_key,
                   fnow, results, issued>>
    /\ UNCHANGED scoreVars
    /\ UNCHANGED outsidePipe
    /\ UNCHANGED rq_seen

\* HeuristicScorer.calculate_score: a rule that raises is skipped; with
\* every rule raising the score is 0 and no rule is matched.
HeuristicScore ==
    /\ rq_an["heuristic"].st = "running"
    /\ \E failed \in BOOLEAN, v \in PipeHeuristicValues :
         /\ rq_an' = [rq_an EXCEPT !["heuristic"] =
                         Returned(IF failed THEN 0 ELSE v, LookalikeDefault)]
         /\ rq_failed' = IF failed THEN rq_failed \cup {"heuristic"} ELSE rq_failed
    /\ UNCHANGED <<model_primary, model_fallback, url_cache, rq_pc, rq_url, rq_page,
                   rq_ti, rq_brand, rq_out, served>>
    /\ UNCHANGED <<intelVars, scoreVars>>
    /\ UNCHANGED outsidePipe
    /\ UNCHANGED <<use_redis, rq_cache_failed>>
    /\ UNCHANGED rq_seen

\* detect_lookalike: an exception is caught and the default result returned.
DetectLookalike ==
    /\ rq_an["lookalike"].st = "running"
    /\ \E failed \in BOOLEAN, sim \in PipeSimValues :
         /\ rq_an' = [rq_an EXCEPT !["lookalike"] =
                         Returned(0, IF failed THEN LookalikeDefault
                                     ELSE LookalikeVerdict(sim, FALSE))]
         /\ rq_failed' = IF failed THEN rq_failed \cup {"lookalike"} ELSE rq_failed
    /\ UNCHANGED <<model_primary, model_fallback, url_cache, rq_pc, rq_url, rq_page,
                   rq_ti, rq_brand, rq_out, served>>
    /\ UNCHANGED <<intelVars, scoreVars>>
    /\ UNCHANGED outsidePipe
    /\ UNCHANGED <<use_redis, rq_cache_failed>>
    /\ UNCHANGED rq_seen

\* ml_model.predict on its worker thread.
MlPredict ==
    /\ rq_an["ml"].st = "running"
    /\ \E primary_ok \in BOOLEAN, fallback_ok \in BOOLEAN, v \in PipeMlValues :
         LET r == Predict(primary_ok, fallback_ok, v)
         IN  /\ rq_an' = [rq_an EXCEPT !["ml"] = r]
             /\ rq_failed' = IF r.st = "raised" THEN rq_failed \cup {"ml"}
                             ELSE rq_failed
    /\ UNCHANGED <<model_primary, model_fallback, url_cache, rq_pc, rq_url, rq_page,
                   rq_ti, rq_brand, rq_out, served>>
    /\ UNCHANGED <<intelVars, scoreVars>>
    /\ UNCHANGED outsidePipe
    /\ UNCHANGED <<use_redis, rq_cache_failed>>
    /\ UNCHANGED rq_seen

\* check_all on worker 1, for the URL of the request.
IntelLookup == LookupUrl(1, rq_url)

\* Lines 62-77: gather returns the four results, the thread of check_all
\* ends, and the brand detection runs when the request carries page data
\* (it catches its own failures and returns its default result).
GatherReturn ==
    /\ rq_pc = "gather"
    /\ \A a \in PureAnalyzers : rq_an[a].st = "returned"
    /\ pc[1] = "done"
    /\ rq_ti' = results[1]
    /\ pc' = [pc EXCEPT ![1] = "idle"]
    /\ results' = [results EXCEPT ![1] = InitResults]
    /\ IF rq_page
       THEN \E failed \in BOOLEAN :
              /\ rq_brand' = IF failed THEN "default" ELSE "result"
              /\ rq_failed' = IF failed THEN rq_failed \cup {"brand"} ELSE rq_failed
       ELSE rq_brand' = "None" /\ UNCHANGED rq_failed
    /\ rq_pc' = "score"
    /\ UNCHANGED <<model_primary, model_fallback, url_cache, rq_url, rq_page,
                   rq_an, rq_out, served>>
    /\ UNCHANGED <<now, calls, openphish_cache, openphish_last_update, api_key,
                   fnow, issued>>
    /\ UNCHANGED scoreVars
    /\ UNCHANGED outsidePipe
    /\ UNCHANGED <<use_redis, rq_cache_failed>>
    /\ UNCHANGED rq_seen

\* Lines 62-67 and 100-109: gather raises what predict raised, and the
\* handler answers 500; the results of the other analyzers are dropped.
GatherRaise ==
    /\ rq_pc = "gather"
    /\ rq_an["ml"].st = "raised"
    /\ rq_out' = [NoResponse EXCEPT !.status = 500]
    /\ rq_an' = [a \in PureAnalyzers |-> NotRun]
    /\ rq_pc' = "done"
    /\ UNCHANGED <<model_primary, model_fallback, url_cache, rq_url, rq_page,
                   rq_failed, rq_ti, rq_brand, served>>
    /\ UNCHANGED <<intelVars, scoreVars>>
    /\ UNCHANGED outsidePipe
    /\ UNCHANGED <<use_redis, rq_cache_failed>>
    /\ UNCHANGED rq_seen

\* The thread of check_all ends after gather has raised.
WorkerExit ==
    /\ rq_pc # "gather"
    /\ pc[1] = "done"
    /\ pc' = [pc EXCEPT ![1] = "idle"]
    /\ results' = [results EXCEPT ![1] = InitResults]
    /\ UNCHANGED <<now, calls, openphish_cache, openphish_last_update, api_key,
                   fnow, issued>>
    /\ UNCHANGED <<scoreVars, pipeVars>>
    /\ UNCHANGED outsidePipe

\* An entry holding the verdict as it was before the override step.
StoredEntryBeforeOverride(out) ==
    [present |-> TRUE, threat_score |-> out.composite,
     risk_level |-> GetRiskLevel(out.composite),
     is_phishing |-> BaseVerdict(out.composite),
     ttl |-> CacheTtl(out.composite, GetRiskLevel(out.composite))]

\* Line 94: the entry set_url_analysis stores for the result of
\* calculate_score.
StoredEntry(out) ==
    [present |-> TRUE, threat_score |-> out.threat_score,
     risk_level |-> out.risk_level, is_phishing |-> out.is_phishing,
     ttl |-> CacheTtl(out.threat_score, out.risk_level)]

\* Line 98: the response built from the result of calculate_score.
ResponseOf(out) ==
    [status |-> 200, threat_score |-> out.threat_score,
     risk_level |-> out.risk_level, is_phishing |-> out.is_phishing]

\* Results unpacked in the order of a completion in which predict finished
\* before calculate_score of the heuristic scorer.
FusionInputByCompletion(an, ti) ==
    [ml |-> an["heuristic"].score * 100,
     heuristic |-> an["ml"].score \div 100,
     threat_intel |-> ti.threat_intel_score,
     lookalike |-> an["lookalike"].lookalike]

\* Lines 62-67 and 81-85: gather returns the results in the order of its
\* arguments, and each score is read from the result of its analyzer.
FusionInput(an, ti) ==
    [ml |-> an["ml"].score,
     heuristic |-> an["heuristic"].score,
     threat_intel |-> ti.threat_intel_score,
     lookalike |-> an["lookalike"].lookalike]

\* A handler that a failing Cache.set reaches.
FuseResponsePropagating(out, set_failed) ==
    IF set_failed THEN [NoResponse EXCEPT !.status = 500] ELSE ResponseOf(out)

\* Lines 93-98: Cache.set catches what the backend raises (cache.py lines
\* 101-102), so the response is built whether the entry was stored or not.
FuseResponse(out, set_failed) == ResponseOf(out)

\* Lines 81-98: calculate_score, set_url_analysis, and the response.  With
\* Redis as the backend the set may raise inside Cache.set.
Fuse ==
    /\ rq_pc = "score"
    /\ sc_in' = FusionInput(rq_an, rq_ti)
    /\ sc_fp' \in FpOutcomes(sc_in')
    /\ sc_out' = CalculateScore(sc_in', sc_fp')
    /\ sc_details' = [matched_rules |-> MatchedRulesFor(rq_an["heuristic"].score),
                      ti_reasons |-> rq_ti.reasons,
                      brand |-> BrandDetails(rq_brand)]
    /\ sc_reasons' = GenerateReasons(sc_in', sc_details', sc_out'.threat_score)
    /\ sc_self' = SelfAfterCall(sc_in')
    /\ sc_n' = sc_n + 1
    /\ \E failed \in IF use_redis THEN BOOLEAN ELSE {FALSE} :
         /\ url_cache' = IF failed THEN url_cache
                         ELSE [url_cache EXCEPT ![MakeUrlKey(rq_url)] =
                                  StoredEntry(sc_out')]
         /\ rq_cache_failed' = IF failed THEN rq_cache_failed \cup {"set"}
                                ELSE rq_cache_failed
         /\ rq_out' = FuseResponse(sc_out', failed)
    /\ UNCHANGED use_redis
    /\ rq_an' = [a \in PureAnalyzers |-> NotRun]
    /\ rq_pc' = "done"
    /\ UNCHANGED <<model_primary, model_fallback, rq_url, rq_page, rq_failed,
                   rq_ti, rq_brand, served>>
    /\ UNCHANGED intelVars
    /\ UNCHANGED outsidePipe
    /\ UNCHANGED rq_seen

\* The response is sent and the handler's frame is gone; the handler is
\* free for the next request.
Respond ==
    /\ rq_pc = "done"
    /\ rq_pc' = "idle"
    /\ rq_failed' = {}
    /\ rq_ti' = InitResults
    /\ rq_brand' = "None"
    /\ rq_out' = NoResponse
    /\ rq_seen' = [rq_seen EXCEPT ![rq_url] = rq_out]
    /\ rq_cache_failed' = {}
    /\ UNCHANGED use_redis
    /\ sc_in' = [ml |-> 0, heuristic |-> 0, threat_intel |-> 0,
                 lookalike |-> LookalikeDefault]
    /\ sc_fp' = FALSE
    /\ sc_out' = NotCalled
    /\ sc_details' = NoDetails
    /\ sc_reasons' = <<>>
    /\ sc_n' = 0
    /\ UNCHANGED sc_self
    /\ rq_page' = FALSE
    /\ UNCHANGED <<model_primary, model_fallback, url_cache, rq_url, rq_an, served>>
    /\ UNCHANGED intelVars
    /\ UNCHANGED outsidePipe

(***************************************************************************)
(* HeuristicScorer.  A feature map gives every feature a value: an integer *)
(* (ratios in hundredths, entropies in hundredths of a bit), Python's None *)
(* (any value an ordering comparison raises on), or no entry at all, for   *)
(* which f.get falls back to the rule's default.                           *)
(***************************************************************************)
MaxChanged == 2

IntVal(n) == [kind |-> "int", n |-> n]
NoneVal == [kind |-> "none", n |-> 0]
Absent == [kind |-> "absent", n |-> 0]

\* _initialize_rules: the rules in their order, each with the feature its
\* condition reads, the comparison, its argument, and the default of f.get.
Rule(name, score, feature, test, arg, default) ==
    [name |-> name, score |-> score, feature |-> feature, test |-> test,
     arg |-> arg, default |-> default]

Rules == <<
    Rule("Extremely long URL", 15, "url_length", "gt", 75, 0),
    Rule("Very long domain", 10, "domain_length", "gt", 30, 0),
    Rule("Multiple subdomains", 20, "subdomain_count", "ge", 3, 0),
    Rule("Deep path structure", 12, "path_depth", "gt", 5, 0),
    Rule("Many query parameters", 8, "query_param_count", "gt", 10, 0),
    Rule("High digit ratio", 15, "digit_ratio", "gt", 20, 0),
    Rule("High special character ratio", 12, "special_char_ratio", "gt", 30, 0),
    Rule("Multiple hyphens in domain", 15, "hyphen_count", "gt", 3, 0),
    Rule("High URL entropy", 18, "url_entropy", "gt", 450, 0),
    Rule("High domain entropy", 15, "domain_entropy", "gt", 400, 0),
    Rule("IP address instead of domain", 30, "has_ip_address", "eq", 1, 0),
    Rule("Suspicious TLD", 20, "has_suspicious_tld", "eq", 1, 0),
    Rule("Multiple suspicious keywords", 25, "suspicious_keyword_count", "ge", 2, 0),
    Rule("At symbol in URL", 20, "at_symbol", "eq", 1, 0),
    Rule("Double slash redirecting", 18, "has_double_slash_redirecting", "eq", 1, 0),
    Rule("Prefix/suffix in domain", 15, "prefix_suffix_in_domain", "eq", 1, 0),
    Rule("Non-standard port", 12, "uses_non_standard_port", "eq", 1, 0),
    Rule("No HTTPS", 10, "is_https", "eq", 0, 0),
    Rule("Invalid or missing SSL", 25, "has_valid_ssl", "ssl", 0, 0),
    Rule("Very new SSL certificate", 15, "ssl_certificate_age_days", "below", 30, -1),
    Rule("Recently registered domain", 20, "domain_registered_recently", "eq", 1, 0),
    Rule("Very new domain", 30, "domain_age_days", "below", 30, -1) >>

RuleIds == 1..Len(Rules)
Features == {Rules[i].feature : i \in RuleIds}

\* f.get(feature, default)
FeatureGet(f, feature, default) ==
    IF f[feature].kind = "absent" THEN IntVal(default) ELSE f[feature]

\* rule['condition'](features): "true", "false", or "raises".  Python's ==
\* never raises; >, >= and the chained 0 <= x < n raise on None.
Eval(rule, f) ==
    LET x == FeatureGet(f, rule.feature, rule.default)
        truth(b) == IF b THEN "true" ELSE "false"
    IN  IF rule.test = "eq" THEN truth(x.kind = "int" /\ x.n = rule.arg)
        ELSE IF rule.test = "ssl"
        THEN LET https == FeatureGet(f, "is_https", 0)
             IN  truth(x.kind = "int" /\ x.n = 0 /\ https.kind = "int" /\ https.n = 1)
        ELSE IF x.kind = "none" THEN "raises"
        ELSE IF rule.test = "gt" THEN truth(x.n > rule.arg)
        ELSE IF rule.test = "ge" THEN truth(x.n >= rule.arg)
        ELSE truth(0 <= x.n /\ x.n < rule.arg)

\* A loop the first raising rule ends.
RECURSIVE EvaluateRulesAbort(_, _, _, _)
EvaluateRulesAbort(f, i, matched, total) ==
    IF i > Len(Rules) \/ Eval(Rules[i], f) = "raises"
    THEN [matched |-> matched, total |-> total]
    ELSE IF Eval(Rules[i], f) = "true"
    THEN EvaluateRulesAbort(f, i + 1, Append(matched, i), total + Rules[i].score)
    ELSE EvaluateRulesAbort(f, i + 1, matched, total)

\* Lines 207-223: the loop over the rules from rule i on, each in its own
\* try: a rule whose condition raises is logged and skipped.
RECURSIVE EvaluateRules(_, _, _, _)
EvaluateRules(f, i, matched, total) ==
    IF i > Len(Rules) THEN [matched |-> matched, total |-> total]
    ELSE IF Eval(Rules[i], f) = "true"
    THEN EvaluateRules(f, i + 1, Append(matched, i), total + Rules[i].score)
    ELSE EvaluateRules(f, i + 1, matched, total)

\* Line 229: matched_rules.sort(key=score, reverse=True), a stable sort.
RECURSIVE InsertByScore(_, _)
InsertByScore(sorted, i) ==
    IF sorted = <<>> THEN <<i>>
    ELSE IF Rules[Head(sorted)].score >= Rules[i].score
    THEN <<Head(sorted)>> \o InsertByScore(Tail(sorted), i)
    ELSE <<i>> \o sorted

RECURSIVE SortByScore(_)
SortByScore(matched) ==
    IF matched = <<>> THEN <<>>
    ELSE InsertByScore(SortByScore(SubSeq(matched, 1, Len(matched) - 1)),
                       matched[Len(matched)])

\* HeuristicScorer.calculate_score; matched_rules holds the rules by their
\* position in the rule list.
HeuristicCalculateScore(f) ==
    LET r == EvaluateRules(f, 1, <<>>, 0)
    IN  [called |-> TRUE,
         score |-> Min(r.total, 100),
         matched_rules |-> SortByScore(r.matched),
         rule_count |-> Len(r.matched)]

NotScored == [called |-> FALSE, score |-> 0, matched_rules |-> <<>>, rule_count |-> 0]

\* Feature maps: what extract_all_features gives for an unremarkable HTTPS
\* URL of an old domain, and for a plain-HTTP URL on an IP address whose
\* WHOIS record is days old.
Benign ==
    [x \in Features |->
        IF x \in {"is_https", "has_valid_ssl"} THEN IntVal(1)
        ELSE IF x = "ssl_certificate_age_days" THEN IntVal(400)
        ELSE IF x = "domain_age_days" THEN IntVal(4000)
        ELSE IF x = "url_length" THEN IntVal(20)
        ELSE IF x = "domain_length" THEN IntVal(10)
        ELSE IF x \in {"url_entropy", "domain_entropy"} THEN IntVal(300)
        ELSE IntVal(0)]

Hostile ==
    [Benign EXCEPT !["is_https"] = IntVal(0), !["has_valid_ssl"] = IntVal(0),
                   !["ssl_certificate_age_days"] = IntVal(-1),
                   !["has_ip_address"] = IntVal(1),
                   !["domain_age_days"] = IntVal(10),
                   !["domain_registered_recently"] = IntVal(1)]

\* The values a feature is changed to: around the argument of its rule,
\* None, and no entry.
Rivals(feature) ==
    LET i == CHOOSE j \in RuleIds : Rules[j].feature = feature
        a == Rules[i].arg
    IN  {IntVal(n) : n \in IF Rules[i].test = "below" THEN {-1, 0, a - 1, a}
                            ELSE {a - 1, a, a + 1}}
          \cup {NoneVal, Absent}

\* The base maps with at most MaxChanged features changed.
FeatureMaps ==
    {[x \in Features |-> IF x \in DOMAIN ch THEN ch[x] ELSE base[x]] :
        base \in {Benign, Hostile},
        ch \in UNION {{g \in [S -> UNION {Rivals(x) : x \in S}] :
                            \A x \in S : g[x] \in Rivals(x)} :
                        S \in {T \in SUBSET Features : Cardinality(T) <= MaxChanged}}}

HeuristicIdle ==
    /\ hs_in = Benign
    /\ hs_out = NotScored
    /\ fx_probe = None

\* heuristic_scorer.calculate_score(url_features)
HeuristicCall ==
    /\ ~hs_out.called
    /\ hs_out' = HeuristicCalculateScore(hs_in)
    /\ UNCHANGED <<hs_in, fx_probe, lk_in, lev_library, lk_out>>
    /\ UNCHANGED <<intelVars, scoreVars, pipeVars, cacheVars>>

\* A WHOIS lookup whose failure leaves an age of 0.
ExtractDomainAgeFromZero(whois) ==
    IF whois.ok
    THEN [domain_age_days |-> IntVal(whois.age),
          domain_registered_recently |-> IntVal(IF whois.age < 180 THEN 1 ELSE 0)]
    ELSE [domain_age_days |-> IntVal(0), domain_registered_recently |-> IntVal(0)]

\* _extract_domain_age, url_features.py lines 193-221: the defaults stay
\* when the whois module is missing, the lookup raises or the record has no
\* creation date.
ExtractDomainAge(whois) ==
    IF whois.ok
    THEN [domain_age_days |-> IntVal(whois.age),
          domain_registered_recently |-> IntVal(IF whois.age < 180 THEN 1 ELSE 0)]
    ELSE [domain_age_days |-> IntVal(-1), domain_registered_recently |-> IntVal(0)]

\* _extract_ssl_features, lines 153-191: the defaults stay for a URL that
\* is not https and when the connection or the handshake raises.
ExtractSslFeatures(is_https, tls) ==
    IF is_https /\ tls.ok
    THEN [has_valid_ssl |-> IntVal(1), ssl_certificate_age_days |-> IntVal(tls.age)]
    ELSE [has_valid_ssl |-> IntVal(0), ssl_certificate_age_days |-> IntVal(-1)]

\* extract_all_features, lines 39-106: the features of the URL itself are
\* in the map, and the results of the two probes are added to it.
ExtractFeatures ==
    /\ fx_probe = None
    /\ ~hs_out.called
    /\ \E tls \in {[ok |-> FALSE, age |-> 0]}
                    \cup {[ok |-> TRUE, age |-> a] : a \in {-1, 0, 29, 30, 400}},
          whois \in {[ok |-> FALSE, age |-> 0]}
                    \cup {[ok |-> TRUE, age |-> a] : a \in {-1, 0, 29, 30, 179, 180, 4000}} :
         LET ssl_features == ExtractSslFeatures(hs_in["is_https"] = IntVal(1), tls)
             age_features == ExtractDomainAge(whois)
         IN  /\ fx_probe' = <<tls, whois>>
             /\ hs_in' = [x \in Features |->
                             IF x \in DOMAIN ssl_features THEN ssl_features[x]
                             ELSE IF x \in DOMAIN age_features THEN age_features[x]
                             ELSE hs_in[x]]
    /\ UNCHANGED <<hs_out, lk_in, lev_library, lk_out>>
    /\ UNCHANGED <<intelVars, scoreVars, pipeVars, cacheVars>>

\* routes.py lines 58 and 63: the scorer is called with the extracted map.
ProbeScore ==
    /\ fx_probe # None
    /\ HeuristicCall

(***************************************************************************)
(* LookalikeDomainDetector.detect_lookalike on labels.  A label is the     *)
(* sequence of its characters; cyr_a, cyr_ya and grk_o stand for Cyrillic  *)
(* a and ya and Greek omicron.  A similarity is the fraction <<n, d>>: the *)
(* code compares and truncates floats, which for labels this short agree   *)
(* with the exact fractions.                                               *)
(***************************************************************************)
\* brand.split('.')[0].lower() of paypal.com, dropbox.com, box.com, ea.com
\* and nortonlifelock.com, in the order the whitelist is walked.
BrandLabels ==
    << <<"p", "a", "y", "p", "a", "l">>,
       <<"d", "r", "o", "p", "b", "o", "x">>,
       <<"b", "o", "x">>,
       <<"e", "a">>,
       <<"n", "o", "r", "t", "o", "n", "l", "i", "f", "e", "l", "o", "c", "k">> >>

\* self.homoglyphs, lines 50-66: the keys, and for each key those of its
\* substitutes that are characters of this model.
HomoglyphKeys ==
    {"a", "e", "i", "o", "p", "c", "y", "x", "b", "h", "n", "m", "s", "g", "l"}
Homoglyphs(c) ==
    IF c = "a" THEN {"cyr_a"}
    ELSE IF c = "i" THEN {"l", "1"}
    ELSE IF c = "o" THEN {"grk_o", "0"}
    ELSE IF c = "l" THEN {"1"}
    ELSE {}

\* Lines 335-341: the script a character is counted under.
Script(c) ==
    IF c \in {"cyr_a", "cyr_ya"} THEN "cyrillic"
    ELSE IF c = "grk_o" THEN "greek"
    ELSE IF c \in {"a", "b", "c", "d", "e", "f", "g", "h", "i", "j", "k", "l", "m",
                    "n", "o", "p", "q", "r", "s", "t", "u", "v", "w", "x", "y", "z"}
    THEN "latin"
    ELSE "none"

\* `sub in s` on strings.
Contains(s, sub) ==
    \E i \in 1..(Len(s) - Len(sub) + 1) : SubSeq(s, i, i + Len(sub) - 1) = sub

\* One row of the edit-distance table: cur holds the entries of the row
\* for the columns 0..Len(cur)-1; a substitution costs subcost.
RECURSIVE LevRow(_, _, _, _, _)
LevRow(prev, c1, s2, cur, subcost) ==
    IF Len(cur) = Len(s2) + 1 THEN cur
    ELSE LET j == Len(cur)
             insertions == prev[j + 1] + 1
             deletions == cur[j] + 1
             substitutions == prev[j] + (IF c1 = s2[j] THEN 0 ELSE subcost)
         IN  LevRow(prev, c1, s2, Append(cur, Min(insertions, Min(deletions, substitutions))),
                    subcost)

RECURSIVE LevRows(_, _, _, _, _)
LevRows(s1, s2, i, prev, subcost) ==
    IF i > Len(s1) THEN prev[Len(s2) + 1]
    ELSE LevRows(s1, s2, i + 1, LevRow(prev, s1[i], s2, <<i>>, subcost), subcost)

\* lev_distance: the Levenshtein distance.
LevDistance(s1, s2) == LevRows(s1, s2, 1, [j \in 1..(Len(s2) + 1) |-> j - 1], 1)

\* lev_ratio.  With the Levenshtein package it is (lensum - d) / lensum for
\* the distance d under which a substitution costs 2; the fallback of lines
\* 30-33 is (max_len - distance) / max_len.
LevRatio(s1, s2, library) ==
    IF library
    THEN LET lensum == Len(s1) + Len(s2)
             d == LevRows(s1, s2, 1, [j \in 1..(Len(s2) + 1) |-> j - 1], 2)
         IN  IF lensum > 0 THEN <<lensum - d, lensum>> ELSE <<1, 1>>
    ELSE LET max_len == Max(Len(s1), Len(s2))
         IN  IF max_len > 0 THEN <<max_len - LevDistance(s1, s2), max_len>>
             ELSE <<1, 1>>

\* x > y and x >= y on fractions.
Greater(x, y) == x[1] * y[2] > y[1] * x[2]
AtLeast(x, y) == x[1] * y[2] >= y[1] * x[2]

\* Lines 256-265: the similarity and the distance of the label to a brand's.
Embedded(domain, brand_domain) ==
    Contains(domain, brand_domain) /\ brand_domain # domain
Similarity(domain, brand_domain, library) ==
    IF Embedded(domain, brand_domain) THEN <<95, 100>>
    ELSE LevRatio(domain, brand_domain, library)

\* Lines 251-272: the loop over the brands from position i on; best_match
\* is the position of the brand, 0 for None.
RECURSIVE BestMatch(_, _, _, _)
BestMatch(domain, library, i, best) ==
    IF i > Len(BrandLabels) THEN best
    ELSE LET similarity == Similarity(domain, BrandLabels[i], library)
             distance == IF Embedded(domain, BrandLabels[i])
                         THEN Len(domain) - Len(BrandLabels[i])
                         ELSE LevDistance(domain, BrandLabels[i])
         IN  BestMatch(domain, library, i + 1,
                 IF Greater(similarity, best.best_similarity)
                 THEN [best_match |-> i, best_similarity |-> similarity,
                       best_distance |-> distance]
                 ELSE best)

\* _check_homoglyphs, lines 313-349: a substitution at the same position,
\* in either direction, or characters of more than one script.
CheckHomoglyphs(domain, best_match) ==
    IF best_match = 0 THEN FALSE
    ELSE LET brand_domain == BrandLabels[best_match]
             n == Min(Len(domain), Len(brand_domain))
             scripts == {Script(domain[k]) : k \in 1..Len(domain)} \ {"none"}
         IN  \/ \E k \in 1..n :
                  /\ domain[k] # brand_domain[k]
                  /\ \/ /\ brand_domain[k] \in HomoglyphKeys
                        /\ domain[k] \in Homoglyphs(brand_domain[k])
                     \/ /\ domain[k] \in HomoglyphKeys
                        /\ brand_domain[k] \in Homoglyphs(domain[k])
             \/ Cardinality(scripts) > 1

\* A verdict that does not compare the label with the best brand's.
IsLookalikeAnyBest(domain, best, homoglyph_detected) ==
    \/ /\ AtLeast(best.best_similarity, <<SIMILARITY_THRESHOLD, 10000>>)
       /\ best.best_match # 0
    \/ homoglyph_detected

\* Lines 278-282.
IsLookalike(domain, best, homoglyph_detected) ==
    \/ /\ AtLeast(best.best_similarity, <<SIMILARITY_THRESHOLD, 10000>>)
       /\ best.best_match # 0
       /\ domain # BrandLabels[best.best_match]
    \/ homoglyph_detected

\* A score whose second bonus starts at 0.95.
LookalikeScoreBonusAt95(best_similarity, homoglyph_detected) ==
    LET base == (best_similarity[1] * 100) \div best_similarity[2]
        withHomoglyph == IF homoglyph_detected THEN Min(100, base + 15) ELSE base
    IN  IF AtLeast(best_similarity, <<95, 100>>)
        THEN Min(100, withHomoglyph + 10) ELSE withHomoglyph

\* Lines 287-296: the score of a lookalike.
LookalikeScore(best_similarity, homoglyph_detected) ==
    LET base == (best_similarity[1] * 100) \div best_similarity[2]
        withHomoglyph == IF homoglyph_detected THEN Min(100, base + 15) ELSE base
    IN  IF Greater(best_similarity, <<95, 100>>)
        THEN Min(100, withHomoglyph + 10) ELSE withHomoglyph

\* str.lower(), on the capitals these specifications write.
Lower(label) ==
    [k \in 1..Len(label) |->
        IF label[k] = "P" THEN "p" ELSE IF label[k] = "D" THEN "d"
        ELSE IF label[k] = "B" THEN "b" ELSE IF label[k] = "E" THEN "e"
        ELSE IF label[k] = "N" THEN "n" ELSE IF label[k] = "I" THEN "i"
        ELSE label[k]]

\* detect_lookalike, lines 240-308, for the label of the URL as written;
\* similarity_score is round(best_similarity, 4) in ten-thousandths.
DetectLookalikeLabel(label, library) ==
    LET domain == Lower(label)
        best == BestMatch(domain, library, 1,
                         [best_match |-> 0, best_similarity |-> <<0, 1>>,
                          best_distance |-> 999])
        best_similarity == best.best_similarity
        homoglyph_detected == CheckHomoglyphs(domain, best.best_match)
        is_lookalike == IsLookalike(domain, best, homoglyph_detected)
    IN  [called |-> TRUE,
         result |-> [is_lookalike |-> is_lookalike,
                     lookalike_score |->
                         IF is_lookalike
                         THEN LookalikeScore(best_similarity, homoglyph_detected)
                         ELSE 0,
                     similarity_score |->
                         (best_similarity[1] * 20000 + best_similarity[2])
                             \div (2 * best_similarity[2]),
                     homoglyph_detected |-> homoglyph_detected],
         best_match |-> best.best_match,
         best_similarity |-> best_similarity]

\* detect_lookalike has not been called.
NotDetected ==
    [called |-> FALSE, result |-> LookalikeDefault, best_match |-> 0,
     best_similarity |-> <<0, 1>>]

\* The labels detect_lookalike is called with: the brand labels, as they
\* are and capitalised, each with one character replaced, one removed, and
\* one appended, and a label unlike all of them.
Candidates ==
    LET Substitutes == {"1", "0", "i", "l", "I", "z", "-", "cyr_a", "cyr_ya", "grk_o"}
        CapitalOf(c) ==
            IF c = "p" THEN "P" ELSE IF c = "d" THEN "D" ELSE IF c = "b" THEN "B"
            ELSE IF c = "e" THEN "E" ELSE IF c = "n" THEN "N" ELSE c
        Without(s, k) == SubSeq(s, 1, k - 1) \o SubSeq(s, k + 1, Len(s))
        Brand == 1..Len(BrandLabels)
    IN  {BrandLabels[b] : b \in Brand}
        \cup {[BrandLabels[b] EXCEPT ![1] = CapitalOf(@)] : b \in Brand}
        \cup UNION {{Without(BrandLabels[b], k) : k \in 1..Len(BrandLabels[b])} :
                     b \in Brand}
        \cup UNION {{[BrandLabels[b] EXCEPT ![k] = c] :
                         k \in 1..Len(BrandLabels[b]), c \in Substitutes} :
                     b \in Brand}
        \cup {Append(BrandLabels[b], c) : b \in Brand, c \in Substitutes}
        \cup {<<"z", "z", "z">>}

LookalikeIdle ==
    /\ lk_in = <<>>
    /\ lev_library = TRUE
    /\ lk_out = NotDetected

\* detect_lookalike is called with the URL of the label.
LookalikeCall ==
    /\ ~lk_out.called
    /\ lk_out' = DetectLookalikeLabel(lk_in, lev_library)
    /\ UNCHANGED <<hs_in, hs_out, fx_probe, lk_in, lev_library>>
    /\ UNCHANGED <<intelVars, scoreVars, pipeVars, cacheVars>>

AnalyzersIdle ==
    /\ HeuristicIdle
    /\ LookalikeIdle

(***************************************************************************)
(* Cache, the in-process backend (use_redis false), and ThreatCache on top *)
(* of it.  memory_cache is a Python dict: it keeps its entries in the      *)
(* order their keys were first inserted, and writing an existing key       *)
(* leaves its position.                                                    *)
(***************************************************************************)
MaxCacheCalls == 3

MEMORY_CACHE_LIMIT == 10000
THREAT_INTEL_TTL == 3600

\* The verdicts analyze_url stores: the fields of a calculate_score result
\* the cache policy reads.
Verdict(score) ==
    [threat_score |-> score, risk_level |-> GetRiskLevel(score),
     is_phishing |-> score >= THRESHOLD_SUSPICIOUS]

\* set_threat_intel and get_threat_intel: the key of a domain report.
ThreatIntelKey(i) == "threatintel:domain:" \o ToString(i)

\* The position of a key in the dict, 0 when it is absent.
Position(mc, key) ==
    IF \E i \in 1..Len(mc) : mc[i].key = key
    THEN CHOOSE i \in 1..Len(mc) : mc[i].key = key
    ELSE 0

\* del memory_cache[key]
Delete(mc, i) == SubSeq(mc, 1, i - 1) \o SubSeq(mc, i + 1, Len(mc))

\* Line 96: to_remove = int(len * 0.1).
ToRemove(n) == n \div 10

\* An eviction that drops the newest entries.
EvictNewest(mc) ==
    IF Len(mc) > MEMORY_CACHE_LIMIT
    THEN SubSeq(mc, 1, Len(mc) - ToRemove(Len(mc)))
    ELSE mc

\* Lines 94-99: over the limit, the first tenth of the keys is deleted.
Evict10(mc) ==
    IF Len(mc) > MEMORY_CACHE_LIMIT
    THEN SubSeq(mc, ToRemove(Len(mc)) + 1, Len(mc))
    ELSE mc

\* Cache.set, lines 87-99, at time t; ttl is None or <<seconds>>, and a
\* ttl of 0 is no expiry either (`if ttl:`).
CacheSet(mc, key, value, ttl, t) ==
    LET expires_at == IF ttl # None /\ ttl # <<0>> THEN <<t + ttl[1]>> ELSE None
        e == [key |-> key, value |-> value, expires_at |-> expires_at]
        i == Position(mc, key)
        written == IF i = 0 THEN Append(mc, e) ELSE [mc EXCEPT ![i] = e]
    IN  Evict10(written)

\* Cache.get, lines 61-68, at time t: what it returns and the dict after.
CacheGet(mc, key, t) ==
    LET i == Position(mc, key)
    IN  IF i = 0 THEN [found |-> FALSE, value |-> Verdict(0), mc |-> mc]
        ELSE IF mc[i].expires_at # None /\ t > mc[i].expires_at[1]
        THEN [found |-> FALSE, value |-> Verdict(0), mc |-> Delete(mc, i)]
        ELSE [found |-> TRUE, value |-> mc[i].value, mc |-> mc]

NoCall ==
    [op |-> "none", key |-> "", value |-> Verdict(0), at |-> 0, found |-> FALSE,
     n |-> 0]

CacheIdle ==
    /\ memory_cache = <<>>
    /\ ck_call = NoCall

\* threat_cache.set_url_analysis(u, v), as analyze_url calls it.
SetUrlAnalysis(u, v) ==
    /\ ck_call.n < MaxCacheCalls
    /\ ck_call' = [op |-> "set_url_analysis", key |-> MakeUrlKey(u), value |-> v,
                   at |-> now, found |-> FALSE, n |-> ck_call.n + 1]
    /\ memory_cache' = CacheSet(memory_cache, MakeUrlKey(u), v,
                                CacheTtl(v.threat_score, v.risk_level), now)
    /\ UNCHANGED intelVars
    /\ UNCHANGED outsideCache

\* threat_cache.get_url_analysis(u).
GetUrlAnalysis(u) ==
    /\ ck_call.n < MaxCacheCalls
    /\ LET r == CacheGet(memory_cache, MakeUrlKey(u), now)
       IN  /\ ck_call' = [op |-> "get_url_analysis", key |-> MakeUrlKey(u),
                          value |-> r.value, at |-> now, found |-> r.found,
                          n |-> ck_call.n + 1]
           /\ memory_cache' = r.mc
    /\ UNCHANGED intelVars
    /\ UNCHANGED outsideCache

\* threat_cache.set_threat_intel('domain', d, result, ttl=3600), as the
\* domain check calls it, for the domain numbered i.
SetThreatIntel(i) ==
    /\ ck_call.n < MaxCacheCalls
    /\ ck_call' = [op |-> "set_threat_intel", key |-> ThreatIntelKey(i),
                   value |-> Verdict(0), at |-> now, found |-> FALSE,
                   n |-> ck_call.n + 1]
    /\ memory_cache' = CacheSet(memory_cache, ThreatIntelKey(i), Verdict(0),
                                <<THREAT_INTEL_TTL>>, now)
    /\ UNCHANGED intelVars
    /\ UNCHANGED outsideCache

\* Time passes, to the end of one of the two TTLs of set_url_analysis
\* counted from the start, or to the second after it.
Elapse ==
    /\ \E t \in {CACHE_TTL_NEGATIVE, CACHE_TTL_NEGATIVE + 1,
                 CACHE_TTL_POSITIVE, CACHE_TTL_POSITIVE + 1} : t > now /\ now' = t
    /\ UNCHANGED <<calls, openphish_cache, openphish_last_update, api_key,
                   pc, fnow, results, issued>>
    /\ UNCHANGED cacheVars
    /\ UNCHANGED outsideCache

\* Start-up state of the services the cache specifications do not use.
OthersIdle ==
    /\ InitShared
    /\ pc = [t \in Threads |-> "idle"]
    /\ api_key = [s \in Sources |-> FALSE]
    /\ ScoreIdle
    /\ PipeIdle
    /\ model_primary = FALSE
    /\ model_fallback = FALSE

\* The cache from start-up on, used by analyze_url and the domain check.
InitCache ==
    /\ OthersIdle
    /\ AnalyzersIdle
    /\ CacheIdle

NextCache ==
    \/ \E u \in Urls, score \in {59, 60, 85, 86, 90} :
         SetUrlAnalysis(u, Verdict(score))
    \/ \E u \in Urls : GetUrlAnalysis(u)
    \/ SetThreatIntel(1)
    \/ Elapse

SpecCache == InitCache /\ [][NextCache]_vars

\* The cache after a long run of domain checks: one entry short of the
\* limit, or at the limit.  With `first`, the run began with the analysis
\* of a URL whose verdict was critical.
Prefilled(n, first) ==
    [i \in 1..n |->
        IF first /\ i = 1
        THEN [key |-> MakeUrlKey("u2"), value |-> Verdict(95), expires_at |-> None]
        ELSE [key |-> ThreatIntelKey(i), value |-> Verdict(0),
              expires_at |-> <<THREAT_INTEL_TTL>>]]

InitFull ==
    /\ OthersIdle
    /\ AnalyzersIdle
    /\ \E n \in {MEMORY_CACHE_LIMIT - 1, MEMORY_CACHE_LIMIT}, first \in BOOLEAN :
         memory_cache = Prefilled(n, first)
    /\ ck_call = NoCall

\* Writes of new keys and of the oldest and the newest key, and reads.
NextFull ==
    \/ \E u \in Urls : SetUrlAnalysis(u, Verdict(60))
    \/ \E u \in Urls : GetUrlAnalysis(u)
    \/ \E i \in {1, MEMORY_CACHE_LIMIT, MEMORY_CACHE_LIMIT + 1} : SetThreatIntel(i)

SpecFull == InitFull /\ [][NextFull]_vars

\* The heuristic scorer alone, called with a feature map.
InitHeuristic ==
    /\ OthersIdle
    /\ CacheIdle
    /\ LookalikeIdle
    /\ hs_in \in FeatureMaps
    /\ hs_out = NotScored
    /\ fx_probe = None

NextHeuristic == HeuristicCall

SpecHeuristic == InitHeuristic /\ [][NextHeuristic]_vars

\* Feature extraction and scoring: the map holds the features of the URL
\* itself, one of the base maps with any one feature changed; the four
\* features of the probes are not in it yet.
InitProbe ==
    /\ OthersIdle
    /\ CacheIdle
    /\ LookalikeIdle
    /\ \E base \in {Benign, Hostile}, x \in Features, v \in {IntVal(0), IntVal(1)} :
         hs_in = [y \in Features |->
                    IF y \in {"has_valid_ssl", "ssl_certificate_age_days",
                               "domain_age_days", "domain_registered_recently"}
                    THEN Absent
                    ELSE IF y = x THEN v ELSE base[y]]
    /\ hs_out = NotScored
    /\ fx_probe = None

NextProbe == ExtractFeatures \/ ProbeScore

SpecProbe == InitProbe /\ [][NextProbe]_vars

InitLookalike ==
    /\ OthersIdle
    /\ CacheIdle
    /\ HeuristicIdle
    /\ lk_in \in Candidates
    /\ lev_library \in BOOLEAN
    /\ lk_out = NotDetected

NextLookalike == LookalikeCall

SpecLookalike == InitLookalike /\ [][NextLookalike]_vars

\* The service after start-up in the default configuration (no API key):
\* load_models has loaded the model files that exist.
InitPipe ==
    /\ InitShared
    /\ CacheIdle
    /\ AnalyzersIdle
    /\ pc = [t \in Threads |-> "idle"]
    /\ api_key = [s \in Sources |-> FALSE]
    /\ ScoreIdle
    /\ PipeIdle
    /\ model_primary \in BOOLEAN
    /\ model_fallback \in BOOLEAN

NextPipe ==
    \/ Receive
    \/ CacheHit
    \/ Dispatch
    \/ HeuristicScore
    \/ DetectLookalike
    \/ MlPredict
    \/ UpdateCheck(1)
    \/ FetchOk(1)
    \/ FetchFail(1)
    \/ IntelLookup
    \/ GatherReturn
    \/ GatherRaise
    \/ WorkerExit
    \/ Fuse
    \/ Respond
    \/ Tick

SpecPipe == InitPipe /\ [][NextPipe]_vars

\* The pipeline with a Redis server as the cache backend and both models
\* loaded.
InitRedis ==
    /\ InitShared
    /\ CacheIdle
    /\ AnalyzersIdle
    /\ pc = [t \in Threads |-> "idle"]
    /\ api_key = [s \in Sources |-> FALSE]
    /\ ScoreIdle
    /\ url_cache = [k \in {MakeUrlKey(u) : u \in Urls} |-> NoEntry]
    /\ rq_pc = "idle"
    /\ rq_url = "u2"
    /\ rq_page = FALSE
    /\ rq_an = [a \in PureAnalyzers |-> NotRun]
    /\ rq_failed = {}
    /\ rq_ti = InitResults
    /\ rq_brand = "None"
    /\ rq_out = NoResponse
    /\ rq_seen = [u \in Urls |-> NoResponse]
    /\ served = 0
    /\ use_redis = TRUE
    /\ rq_cache_failed = {}
    /\ model_primary = TRUE
    /\ model_fallback = TRUE

SpecRedis == InitRedis /\ [][NextPipe]_vars

\* Only calculate_score is called: the threat-intel service stays as
\* constructed.
InitScore ==
    /\ InitShared
    /\ CacheIdle
    /\ AnalyzersIdle
    /\ pc = [t \in Threads |-> "idle"]
    /\ PipeIdle
    /\ model_primary = FALSE
    /\ model_fallback = FALSE
    /\ api_key = [s \in Sources |-> FALSE]
    /\ sc_self = ConfiguredWeights
    /\ sc_n = 0
    /\ sc_in \in ScoreInputs
    /\ sc_fp \in FpOutcomes(sc_in)
    /\ sc_out = NotCalled
    /\ sc_details = DetailsFor(sc_in)
    /\ sc_reasons = <<>>

NextScore == Score \/ Rescore \/ ScoreSame

SpecScore == InitScore /\ [][NextScore]_vars

\* Concurrent requests: every worker thread serves one check_all, in a
\* deployment with at most one of the two API keys configured (neither is
\* by default).
InitIntel ==
    /\ InitShared
    /\ CacheIdle
    /\ AnalyzersIdle
    /\ pc = [t \in Threads |-> "enter"]
    /\ ScoreIdle
    /\ PipeIdle
    /\ model_primary = FALSE
    /\ model_fallback = FALSE
    /\ api_key \in {k \in [Sources -> BOOLEAN] : ~(k["virustotal"] /\ k["abuseipdb"])}

NextIntel ==
    \/ \E t \in Threads : UpdateCheck(t)
    \/ \E t \in Threads : FetchOk(t)
    \/ \E t \in Threads : FetchFail(t)
    \/ \E t \in Threads : Lookup(t)
    \/ \E t \in Threads : CanCall(t)
    \/ \E t \in Threads : Responded(t)
    \/ \E t \in Threads : RequestRaised(t)
    \/ Tick

SpecIntel == InitIntel /\ [][NextIntel]_vars

\* Sequential use: one worker serves request after request, and every
\* request that is sent gets a response, so that every can_call that
\* returned true is followed by add_call before the next can_call.
InitSeq ==
    /\ InitShared
    /\ CacheIdle
    /\ AnalyzersIdle
    /\ pc = [t \in Threads |-> "enter"]
    /\ ScoreIdle
    /\ PipeIdle
    /\ model_primary = FALSE
    /\ model_fallback = FALSE
    /\ api_key \in [Sources -> BOOLEAN]

NextSeq ==
    \/ UpdateCheck(1)
    \/ FetchOk(1)
    \/ FetchFail(1)
    \/ Lookup(1)
    \/ CanCall(1)
    \/ Responded(1)
    \/ Return(1)
    \/ Tick

SpecSeq == InitSeq /\ [][NextSeq]_vars

(***************************************************************************)
(* Rate limiting                                                           *)
(***************************************************************************)
\* How many requests to source s were sent at a time in [w, w + W].
IssuedInWindow(s, w) ==
    Cardinality({i \in DOMAIN issued[s] :
                    w <= issued[s][i] /\ issued[s][i] <= w + time_window(s)})

\* C1: with concurrent requests against the shared limiter, the number of
\* external calls sent to one source within any window of W seconds never
\* exceeds the limiter's max_calls.
C1_NoOverAdmission ==
    \A s \in Sources : \A w \in Times : IssuedInWindow(s, w) <= max_calls(s)

\* C2: with the limiter used sequentially, at most max_calls results of
\* can_call are true within any window of W seconds.
C2_SequentialBudget ==
    \A s \in Sources : \A w \in Times :
        LET granted == {i \in DOMAIN issued[s] : issued[s][i] \in w..(w + time_window(s))}
        IN  Cardinality(granted) <= max_calls(s)

\* The limiter has refused nothing forever: after a full budget, an old
\* timestamp was evicted and can_call returned true again.
C2_Witness ==
    \E s \in Sources :
        /\ Len(issued[s]) = max_calls(s) + 1
        /\ Len(calls[s]) = 1
        /\ pc[1] = "done"

(***************************************************************************)
(* Feed refresh                                                            *)
(***************************************************************************)
\* C3: with concurrent queries on a stale feed, at most one feed fetch is
\* in progress at any time (the stale window causes one fetch, not one per
\* request).
C3_SingleFetch ==
    Cardinality({t \in Threads : pc[t] = "op_fetching"}) <= 1

(***************************************************************************)
(* Analyzer failures in analyze_url                                        *)
(***************************************************************************)
\* C4: a request during which one analyzer failed (heuristic scoring,
\* lookalike detection, ML scoring or brand detection) is still answered
\* with a verdict, the verdict is stored under the URL's key, and the
\* failed analyzer contributed a zero score to it.
C4_AnalyzerFailureTolerated ==
    (rq_pc = "done" /\ Cardinality(rq_failed) = 1) =>
        /\ rq_out.status = 200
        /\ url_cache[MakeUrlKey(rq_url)].present
        /\ "heuristic" \in rq_failed => sc_in.heuristic = 0
        /\ "lookalike" \in rq_failed => sc_in.lookalike.lookalike_score = 0
        /\ "ml" \in rq_failed => sc_in.ml = 0

(***************************************************************************)
(* Composite score                                                         *)
(***************************************************************************)
\* C5: for all inputs in range, the threat_score calculate_score returns is
\* an integer in [0,100], both before and after the override step.
C5_ScoreInRange ==
    sc_out.called =>
        /\ sc_out.composite \in 0..100
        /\ sc_out.threat_score \in 0..100

\* The override fired on a composite at the top of the range.
C5_Witness ==
    sc_out.called /\ sc_out.override /\ sc_out.composite = 100

\* C6: the risk_level returned is exactly the threshold mapping of the
\* returned threat_score: safe up to 30, suspicious up to 60, dangerous up
\* to 85, critical above, also when the override changed the score.
C6_RiskLevelOfScore ==
    sc_out.called =>
        sc_out.risk_level =
            IF sc_out.threat_score <= 30 THEN "safe"
            ELSE IF sc_out.threat_score <= 60 THEN "suspicious"
            ELSE IF sc_out.threat_score <= 85 THEN "dangerous"
            ELSE "critical"

\* The override moved the score from one level into another.
C6_Witness ==
    /\ sc_out.called /\ sc_out.override
    /\ sc_out.composite <= 30
    /\ sc_out.threat_score > 60
    /\ sc_out.risk_level = "dangerous"

\* C7: in every result, is_phishing implies that risk_level is one of
\* suspicious, dangerous, critical (never safe).
C7_PhishingNotSafe ==
    (sc_out.called /\ sc_out.is_phishing) =>
        sc_out.risk_level \in {"suspicious", "dangerous", "critical"}

\* A verdict of phishing at the lowest score that gives one.
C7_Witness ==
    /\ sc_out.called /\ sc_out.is_phishing /\ ~sc_out.override
    /\ sc_out.threat_score = 60
    /\ sc_out.risk_level = "suspicious"

\* Between two calls exactly one score was raised and nothing else changed.
RaisedOneScore(a, b) ==
    /\ a.lookalike.is_lookalike = b.lookalike.is_lookalike
    /\ a.lookalike.homoglyph_detected = b.lookalike.homoglyph_detected
    /\ \/ /\ a.ml < b.ml
          /\ b = [a EXCEPT !.ml = b.ml]
       \/ /\ a.heuristic < b.heuristic
          /\ b = [a EXCEPT !.heuristic = b.heuristic]
       \/ /\ a.threat_intel < b.threat_intel
          /\ b = [a EXCEPT !.threat_intel = b.threat_intel]
       \/ /\ a.lookalike.lookalike_score < b.lookalike.lookalike_score
          /\ a.ml = b.ml /\ a.heuristic = b.heuristic
          /\ a.threat_intel = b.threat_intel

\* C8: the composite threat_score is monotone non-decreasing in each single
\* input score, all else equal, unless an override rule fires; raising the
\* lookalike score across 90 never lowers it when no override fires.
C8_Monotone ==
    [][(/\ sc_out.called /\ sc_out'.called
        /\ RaisedOneScore(sc_in, sc_in')
        /\ ~sc_out.override /\ ~sc_out'.override)
       => sc_out'.threat_score >= sc_out.threat_score]_vars

\* The levels in their order.
LevelRank(level) ==
    IF level = "safe" THEN 0
    ELSE IF level = "suspicious" THEN 1
    ELSE IF level = "dangerous" THEN 2
    ELSE 3

\* C9: when the override fires, the composite after it is >= the composite
\* before it and >= 70, is_phishing is true, and the risk level is not
\* lower than the level of the composite before it.
C9_OverrideOnlyRaises ==
    (sc_out.called /\ sc_out.override) =>
        /\ sc_out.threat_score >= sc_out.composite
        /\ sc_out.threat_score >= 70
        /\ sc_out.is_phishing
        /\ LevelRank(sc_out.risk_level) >= LevelRank(GetRiskLevel(sc_out.composite))

\* The override fired on a composite that was already above 70.
C9_Witness ==
    /\ sc_out.called /\ sc_out.override
    /\ sc_out.composite > 70
    /\ sc_out.threat_score = sc_out.composite

\* The three conditions of the override, as the specification lists them.
OverrideListed(in) ==
    \/ in.lookalike.lookalike_score >= 90 /\ in.heuristic >= 60
    \/ in.lookalike.lookalike_score >= 80 /\ in.heuristic >= 50
    \/ in.lookalike.lookalike_score >= 75 /\ in.lookalike.homoglyph_detected

StatedSum(in) ==
    IF in.lookalike.is_lookalike /\ in.lookalike.lookalike_score >= 90
    THEN in.ml * 20 + (in.heuristic * 25 + in.threat_intel * 20
                         + in.lookalike.lookalike_score * 35) * 100
    ELSE in.ml * 40 + (in.heuristic * 25 + in.threat_intel * 30
                         + in.lookalike.lookalike_score * 5) * 100

\* C11 (as stated): before any override the composite is the weighted sum
\* rounded to the nearest integer (either neighbour on a tie) and clamped
\* to [0,100].
C11_RoundedComposite ==
    sc_out.called =>
        \E n \in 0..101 :
            /\ 10000 * n - StatedSum(sc_in) <= 5000
            /\ StatedSum(sc_in) - 10000 * n <= 5000
            /\ sc_out.composite = Min(100, n)

\* C11 (amended): before any override the composite is the weighted sum
\* truncated to an integer by int() and clamped to [0,100]: the whole part
\* of the exact sum, or one less where the exact sum is a whole number and
\* its floating-point evaluation falls just below it.
C11_TruncatedComposite ==
    sc_out.called =>
        LET sum == StatedSum(sc_in)
            whole == sum \div 10000
        IN  \/ sc_out.composite = Min(100, whole)
            \/ /\ sum % 10000 = 0 /\ sum > 0 /\ sc_fp
               /\ sc_out.composite = Min(100, whole - 1)

\* A call under the adaptive weights whose sum has a fractional part of at
\* least one half and is truncated, not rounded up.
C11_Witness ==
    /\ sc_out.called
    /\ StatedSum(sc_in) % 10000 >= 5000
    /\ sc_in.lookalike.lookalike_score >= 90
    /\ sc_out.composite = StatedSum(sc_in) \div 10000
    /\ sc_out.composite > 0

(***************************************************************************)
(* Cache policy                                                            *)
(***************************************************************************)
\* C12: the entry set_url_analysis writes never expires when the verdict's
\* risk_level is critical or its threat_score is at least 90, expires 7
\* days after the call when the threat_score is at least 60, and 24 hours
\* after the call otherwise: the TTL is a function of the verdict alone.
C12_TtlPolicy ==
    ck_call.op = "set_url_analysis" =>
        LET i == Position(memory_cache, ck_call.key)
            v == ck_call.value
        IN  /\ i # 0
            /\ memory_cache[i].expires_at =
                  IF v.risk_level = "critical" \/ v.threat_score >= 90 THEN None
                  ELSE IF v.threat_score >= 60 THEN <<ck_call.at + 7 * 24 * 3600>>
                  ELSE <<ck_call.at + 24 * 3600>>

\* A critical verdict with a score below 90 was stored, later than start-up.
C12_Witness ==
    /\ ck_call.op = "set_url_analysis"
    /\ ck_call.value.risk_level = "critical"
    /\ ck_call.value.threat_score < 90
    /\ ck_call.at > 0
    /\ Position(memory_cache, ck_call.key) # 0

\* C13: when the last submission of a URL was answered with a verdict, the
\* next submission of that URL (nothing deleted, cleared, evicted or
\* expired in between) is answered with the same record.
C13_CachedRoundTrip ==
    (rq_pc = "done" /\ rq_seen[rq_url].status = 200) => rq_out = rq_seen[rq_url]

\* A verdict the override raised was answered, and the same URL has been
\* submitted and answered again.
C13_Witness ==
    /\ rq_pc = "done"
    /\ rq_seen[rq_url].status = 200
    /\ rq_seen[rq_url].threat_score = 70
    /\ rq_out.status = 200
    /\ served = 2

(***************************************************************************)
(* Heuristic score                                                         *)
(***************************************************************************)
\* The rules whose predicate is true of a feature map, and the sum of the
\* weights of a set of rules.
TrueRules(f) == {i \in RuleIds : Eval(Rules[i], f) = "true"}

RECURSIVE SumOfWeights(_)
SumOfWeights(S) ==
    IF S = {} THEN 0
    ELSE LET i == CHOOSE j \in S : TRUE
         IN  Rules[i].score + SumOfWeights(S \ {i})

\* C14: the heuristic score is min(100, the sum of the weights of exactly
\* the rules whose predicate is true); the matched rules are those rules,
\* each once; a rule whose evaluation raises adds nothing and is not
\* listed, and the rules after it are still evaluated.
C14_HeuristicScore ==
    hs_out.called =>
        /\ hs_out.score = Min(100, SumOfWeights(TrueRules(hs_in)))
        /\ {hs_out.matched_rules[k] : k \in DOMAIN hs_out.matched_rules}
              = TrueRules(hs_in)
        /\ Len(hs_out.matched_rules) = Cardinality(TrueRules(hs_in))
        /\ hs_out.rule_count = Cardinality(TrueRules(hs_in))

\* A rule raised, a later rule matched, and the sum went over 100.
C14_Witness ==
    /\ hs_out.called
    /\ \E i, j \in RuleIds :
         /\ i < j
         /\ Eval(Rules[i], hs_in) = "raises"
         /\ j \in TrueRules(hs_in)
    /\ SumOfWeights(TrueRules(hs_in)) > 100
    /\ hs_out.score = 100

\* C15: whenever the submitted URL is in the phishing feed, check_all adds
\* 40 and one hit, and the verdict has threat_score >= 60 with the feed
\* reason first in the reason list, whatever the other analyzers scored.
C15_FeedHitVerdict ==
    (rq_pc = "done" /\ sc_out.called /\ rq_ti.openphish.success
        /\ rq_ti.openphish.value = 1) =>
        /\ rq_ti.threat_intel_score >= 40
        /\ rq_ti.hits >= 1
        /\ sc_out.threat_score >= 60
        /\ sc_reasons # <<>>
        /\ sc_reasons[1].factor = "Listed in OpenPhish feed"

\* The sources of a call that have reason material.
HasMaterial(in, details, source) ==
    IF source = "ml" THEN TRUE
    ELSE IF source = "heuristic" THEN details.matched_rules # <<>>
    ELSE IF source = "threat_intel" THEN details.ti_reasons # <<>>
    ELSE in.lookalike.is_lookalike

ReasonSource(source) ==
    IF source = "ml" THEN "machine_learning"
    ELSE IF source = "heuristic" THEN "heuristic_analysis"
    ELSE IF source = "threat_intel" THEN "threat_intelligence"
    ELSE "lookalike_detection"

\* C17: every source whose reported contribution (score times the weight
\* applied in the composite) is at least 5 and which has reason material
\* has a reason in the reason list.
C17_ContributingSourcesExplained ==
    sc_out.called =>
        \A source \in {"ml", "heuristic", "threat_intel", "lookalike"} :
            (ReportedContribution(sc_in, source) >= 50000
                /\ HasMaterial(sc_in, sc_details, source)) =>
                \E k \in 1..Len(sc_reasons) :
                    sc_reasons[k].source = ReasonSource(source)

StatedLookalikeScore(best_similarity, homoglyph) ==
    Min(100, (best_similarity[1] * 100) \div best_similarity[2]
               + (IF homoglyph THEN 15 ELSE 0)
               + (IF Greater(best_similarity, <<95, 100>>) THEN 10 ELSE 0))

\* C18: the best similarity is the largest over the brands; is_lookalike
\* is true exactly when (that similarity is at least 0.85 and the label of
\* the best brand differs from the candidate's) or a homoglyph was found;
\* the score is 0 when it is false, and else the similarity percentage,
\* plus 15 on a homoglyph, plus 10 above 0.95, clamped to 100.
C18_LookalikeVerdict ==
    lk_out.called =>
        LET domain == Lower(lk_in)
            r == lk_out.result
            sim == lk_out.best_similarity
            differs == lk_out.best_match # 0
                         /\ BrandLabels[lk_out.best_match] # domain
        IN  /\ \A b \in 1..Len(BrandLabels) :
                   AtLeast(sim, Similarity(domain, BrandLabels[b], lev_library))
            /\ r.is_lookalike <=>
                   ((AtLeast(sim, <<85, 100>>) /\ differs) \/ r.homoglyph_detected)
            /\ r.lookalike_score =
                   IF r.is_lookalike
                   THEN StatedLookalikeScore(sim, r.homoglyph_detected)
                   ELSE 0

\* A label only embedding a brand was scored 95 with no bonus, or a
\* homoglyph below the threshold was scored 83 plus 15.
C18_Witness ==
    /\ lk_out.called
    /\ lk_out.result.is_lookalike
    /\ \/ /\ lk_out.best_similarity = <<95, 100>>
          /\ ~lk_out.result.homoglyph_detected
          /\ lk_out.result.lookalike_score = 95
       \/ /\ lk_out.result.homoglyph_detected
          /\ ~AtLeast(lk_out.best_similarity, <<85, 100>>)
          /\ lk_out.result.lookalike_score = 98

\* C19: a candidate whose label equals a brand's label, whatever its case,
\* is no lookalike and scores 0, even where the label of another brand is
\* embedded in it.
C19_ExactBrandIsNoLookalike ==
    (lk_out.called /\ \E b \in 1..Len(BrandLabels) : BrandLabels[b] = Lower(lk_in)) =>
        /\ ~lk_out.result.is_lookalike
        /\ lk_out.result.lookalike_score = 0

\* The label of a brand, capitalised, with the label of another brand
\* embedded in it, was judged.
C19_Witness ==
    /\ lk_out.called
    /\ lk_in # Lower(lk_in)
    /\ Lower(lk_in) = BrandLabels[2]
    /\ Embedded(Lower(lk_in), BrandLabels[3])
    /\ ~lk_out.result.is_lookalike

\* C20: after every set the in-process map holds at most 10,000 entries;
\* a set that makes it exceed 10,000 removes the oldest tenth of the
\* entries, in insertion order, and the entry just written can be read.
C20_BoundedCache ==
    [][(ck_call'.n # ck_call.n
          /\ ck_call'.op \in {"set_url_analysis", "set_threat_intel"}) =>
         \E n \in {IF Position(memory_cache, ck_call'.key) = 0
                    THEN Len(memory_cache) + 1 ELSE Len(memory_cache)} :
           \E tenth \in {n \div 10} :
             /\ Len(memory_cache') <= 10000
             /\ CacheGet(memory_cache', ck_call'.key, now').found
             /\ n > 10000 =>
                   /\ Len(memory_cache') = n - tenth
                   /\ \A k \in 1..(Len(memory_cache') - 1) :
                          memory_cache'[k] = memory_cache[k + tenth]
                   /\ memory_cache'[Len(memory_cache')].key = ck_call'.key
             /\ n <= 10000 => Len(memory_cache') = n]_vars

\* A set of a new key found the map full: the oldest thousand entries are
\* gone and the new entry is the last of the 9,001 left.
C20_Witness ==
    /\ ck_call.op = "set_url_analysis"
    /\ Len(memory_cache) = 9001
    /\ memory_cache[1].key = ThreatIntelKey(1001)
    /\ memory_cache[9001].key = ck_call.key

C22_CacheFailureTolerated ==
    /\ [](( /\ rq_pc = "done"
            /\ rq_cache_failed # {}
            /\ sc_out.called )
          => rq_out = ResponseOf(sc_out))
    /\ [][ /\ ("get" \in rq_cache_failed' /\ "get" \notin rq_cache_failed)
               => (rq_pc' = "gather" /\ rq_out' = NoResponse)
           /\ ("set" \in rq_cache_failed' /\ "set" \notin rq_cache_failed)
               => (url_cache' = url_cache /\ rq_out'.status = 200) ]_vars

\* A request answered 200 although the probe raised with the entry stored
\* and the set raised as well.
C22_Witness ==
    /\ rq_pc = "done"
    /\ rq_cache_failed = {"get", "set"}
    /\ url_cache[MakeUrlKey(rq_url)].present
    /\ sc_out.called
    /\ rq_out.status = 200
    /\ rq_out.is_phishing

\* C23: within one request, whatever the order in which the four analyzers
\* run and finish, calculate_score is called once, at a moment when all four
\* have returned, with each score taken from the result of its own analyzer;
\* the verdict is calculate_score of those four results.
C23_FusionOnceAfterAll ==
    /\ [](sc_n <= 1)
    /\ [](rq_pc \in {"gather", "score"} => sc_n = 0)
    /\ [][(rq_pc = "score" /\ rq_pc' # "score") => (rq_pc' = "done" /\ sc_n' = 1)]_vars
    /\ [][ sc_n' = sc_n + 1 =>
             /\ rq_pc = "score"
             /\ \A a \in PureAnalyzers : rq_an[a].st = "returned"
             /\ pc[1] = "idle"
             /\ sc_in'.ml = rq_an["ml"].score
             /\ sc_in'.heuristic = rq_an["heuristic"].score
             /\ sc_in'.lookalike = rq_an["lookalike"].lookalike
             /\ sc_in'.threat_intel = rq_ti.threat_intel_score
             /\ \E fp \in FpOutcomes(sc_in') :
                   sc_out' = CalculateScore(sc_in', fp) ]_vars

\* A fused request in which each analyzer returned a score of its own.
C23_Witness ==
    /\ rq_pc = "done"
    /\ sc_n = 1
    /\ sc_in.ml = 9000
    /\ sc_in.heuristic = 60
    /\ sc_in.threat_intel = 40
    /\ sc_in.lookalike.is_lookalike
    /\ rq_out.status = 200

\* C24: a request whose probe finds an entry for its URL is answered with
\* that entry in the step that leaves the probe: no analyzer is started,
\* calculate_score is not called, and the limiter windows, the requests
\* issued, the feed set, its last-refresh time and the stored entries are
\* as before.
C24_CacheHitTouchesNothing ==
    [][( /\ rq_pc = "probe"
         /\ rq_pc' # "probe"
         /\ url_cache[MakeUrlKey(rq_url)].present )
       => /\ rq_pc' = "done"
          /\ rq_out' = [status |-> 200,
                         threat_score |-> url_cache[MakeUrlKey(rq_url)].threat_score,
                         risk_level |-> url_cache[MakeUrlKey(rq_url)].risk_level,
                         is_phishing |-> url_cache[MakeUrlKey(rq_url)].is_phishing]
          /\ \A a \in PureAnalyzers : rq_an'[a] = NotRun
          /\ pc' = pc
          /\ sc_n' = 0
          /\ ~sc_out'.called
          /\ calls' = calls
          /\ issued' = issued
          /\ openphish_cache' = openphish_cache
          /\ openphish_last_update' = openphish_last_update
          /\ url_cache' = url_cache ]_vars

\* A request answered from the cache with a phishing verdict, the feed
\* loaded and a call in a limiter window.
C24_Witness ==
    /\ rq_pc = "done"
    /\ sc_n = 0
    /\ rq_out.status = 200
    /\ rq_out.is_phishing
    /\ url_cache[MakeUrlKey(rq_url)].present
    /\ openphish_last_update # None

\* C25: a verdict stored with no expiry can still be read by
\* get_url_analysis after a set of any other key.
C25_PermanentSurvivesSets ==
    [][\A k \in {MakeUrlKey(u) : u \in Urls} :
         \A i \in {Position(memory_cache, k)} :
           ( /\ i # 0
             /\ memory_cache[i].expires_at = None
             /\ ck_call'.n # ck_call.n
             /\ ck_call'.op \in {"set_url_analysis", "set_threat_intel"}
             /\ ck_call'.key # k )
           => /\ CacheGet(memory_cache', k, now').found
              /\ CacheGet(memory_cache', k, now').value = memory_cache[i].value]_vars

\* C26: the entry that set_url_analysis stores for a verdict of
\* calculate_score expires after 7 days or never when is_phishing is true,
\* and after 24 hours when is_phishing is false, the verdicts of the
\* override included.
C26_TtlAgreesWithVerdict ==
    sc_out.called =>
        /\ sc_out.is_phishing =>
              StoredEntry(sc_out).ttl \in {<<7 * 24 * 3600>>, None}
        /\ ~sc_out.is_phishing => StoredEntry(sc_out).ttl = <<24 * 3600>>

\* The override made a verdict of phishing out of a composite below 60, and
\* the entry of the boosted score gets the 7 days.
C26_Witness ==
    /\ sc_out.called
    /\ sc_out.override
    /\ sc_out.composite < 60
    /\ sc_out.is_phishing
    /\ StoredEntry(sc_out).ttl = <<7 * 24 * 3600>>

\* C27: a feed request that ends leaves the feed set and the last-refresh
\* time as they were (a failure) or replaces the set by the lines of the
\* response and sets the last-refresh time (a success); a query that finds
\* the feed never fetched or fetched at least the update interval ago
\* attempts the fetch; and while the last refresh is less than the update
\* interval old no fetch is in progress.
C27_FeedRefresh ==
    /\ [][\A t \in Threads :
             (pc[t] = "op_fetching" /\ pc'[t] # "op_fetching") =>
                 /\ pc'[t] = "op_lookup"
                 /\ \/ /\ openphish_cache' = openphish_cache
                       /\ openphish_last_update' = openphish_last_update
                    \/ /\ \E text \in {{"U1 "}, {"u2"}} :
                             openphish_cache' = {Normalize(l) : l \in text}
                       /\ openphish_last_update' = <<fnow[t]>>]_vars
    /\ [][\A t \in Threads :
             ( /\ pc[t] = "enter"
               /\ pc'[t] # "enter"
               /\ \/ openphish_last_update = None
                  \/ now - openphish_last_update[1] >= UpdateInterval )
             => pc'[t] = "op_fetching"]_vars
    /\ [](\A t \in Threads :
             pc[t] = "op_fetching" =>
                 \/ openphish_last_update = None
                 \/ now - openphish_last_update[1] >= UpdateInterval)

\* C28: every request sent to a source and ended, by a response, a timeout
\* or an exception, has a timestamp in the limiter window of that source:
\* the window holds at least as many timestamps of the last W seconds as
\* requests were sent in them, those still awaiting their end aside.
C28_EveryRequestRecorded ==
    \A s \in Sources :
        LET inFlight == {t \in Threads :
                            /\ pc[t] \in {"vt_request", "ab_request"}
                            /\ SourceAt(pc[t]) = s}
            sent == {i \in DOMAIN issued[s] : issued[s][i] >= now - time_window(s)}
            recorded == {i \in DOMAIN calls[s] : calls[s][i] >= now - time_window(s)}
        IN  Cardinality(recorded) >= Cardinality(sent) - Cardinality(inFlight)

\* C29: every reason calculate_score returns has a weight in 0..100, and
\* the list has at most 10 reasons, sorted by weight, highest first.
C29_ReasonWeights ==
    sc_out.called =>
        /\ Len(sc_reasons) <= 10
        /\ \A i \in DOMAIN sc_reasons : sc_reasons[i].weight \in 0..100
        /\ \A i \in 1..(Len(sc_reasons) - 1) :
               sc_reasons[i].weight >= sc_reasons[i + 1].weight

====
